---- MODULE Spec2Model ----
\* A model of conduit's parallel mesh partitioner
\* (src/src/libs/blueprint/conduit_blueprint_mpi_mesh_partition.cpp):
\*   - parallel_partitioner::map_chunks and communicate_chunks, run by every
\*     rank of the communicator (specification Spec);
\*   - parallel_partitioner::get_largest_selection (specification SpecSel);
\* and of the tiled mesh generator
\* (src/src/libs/blueprint/conduit_blueprint_mesh_examples_tiled.cpp):
\*   - Tiler::generate (specification SpecTile);
\* and of the point merger (src/src/libs/blueprint/pointmerge.hpp):
\*   - point_merge::execute (specification SpecMerge).
\* Vectors of the source are sequences here: the source's v[i] is At(v, i).
EXTENDS Integers, Sequences, FiniteSets, TLC

\* ------------------------------------------------------------------ bounds
\* Largest communicator size.
MaxSize == 2
\* Largest number of chunks in the whole fleet.
MaxChunks == 3
\* Largest num_elements of a chunk.
MaxElems == 2
\* Largest target number of domains.
MaxTarget == 3
\* Largest domain id a pinned chunk names.
MaxDomain == 1
\* Largest number of selections in the whole fleet.
MaxSelections == 3
\* Largest length of a selection.
MaxLength == 2
\* Largest number of tiles nx * ny of a tiled mesh.
MaxTiles == 4
\* Largest nz of a tiled mesh.
MaxNz == 1
\* Largest absolute value of the `reorder` option.
MaxReorder == 1
\* Largest number of bricks the `domains` option names.
MaxDomains == 3
\* Largest number of coordinate sets handed to point_merge::execute.
MaxSets == 2
\* Largest number of points of a coordinate set.
MaxPoints == 2
\* Largest number of points of a coordinate set that holds no x.
MaxOtherPoints == 1
\* Largest number of points of all coordinate sets together.
MaxTotalPoints == 2
\* Largest number of decimal places of a tolerance (tolerance 10^-6).
MaxPlaces == 6
\* Width in bits the model gives size_t (64 in the build; 0 - 1 wraps to the
\* greatest value at every width).
SizeBits == 16

\* ------------------------------------------------------- program constants
PARTITION_TAG_BASE == 12000

\* ------------------------------------------------------------------- state
VARIABLES
    size,          \* MPI_Comm_size(comm)
    target,        \* partitioner::target, the same on every rank
    chunks,        \* chunks[r]: the chunks argument on rank r
    pc,            \* pc[r]: where rank r stands
    offsets,       \* offsets[r]: the _offsets out-parameter on rank r
    dest_rank,     \* dest_rank[r]: the dest_rank out-parameter on rank r
    dest_domain,   \* dest_domain[r]: the dest_domain out-parameter on rank r
    placements,    \* placements[r]: target_element_counts after each placement
    warnings,      \* warnings[r]: CONDUIT_WARN diagnostics emitted by rank r
    send_i,        \* send_i[r]: index i of the send loop of rank r
    recv_i,        \* recv_i[r]: index i of the receive loop of rank r
    posted,        \* posted[r]: the receive rank r is blocked in, if any (a set)
    msgs,          \* messages sent and not yet received
    sendLog,       \* sendLog[r]: the sends rank r has made, in order
    recvLog,       \* recvLog[r]: the receives rank r has posted, in order
    chunks_to_assemble,          \* per rank
    chunks_to_assemble_domains,  \* per rank
    selections,    \* selections[r]: lengths of the selections of rank r
    sel_pc,        \* sel_pc[r]: where rank r stands in get_largest_selection
    largest_selection, \* largest_selection[r]: rank r's MPI_MAXLOC operand
    sel_rank,      \* sel_rank[r]: out-parameter on rank r
    sel_index,     \* sel_index[r]: out-parameter on rank r
    t_pc,          \* where generate stands
    nx, ny, nz,    \* the arguments of generate
    options,       \* the options argument: each option a set, empty if absent
    tiler,         \* the Tiler's members m_xpts .. m_height
    reorder,       \* the local reorder of generate
    M,             \* the transform M[3][3]
    tiles,         \* tiles[j*nx + i]: the ptids of that Tile
    tile_i,        \* i of the tile loop
    tile_j,        \* j of the tile loop
    coords,        \* the coordinate arrays x, y, z
    ptsPerPlane,   \* the local ptsPerPlane
    conn,          \* connectivity of topology mesh
    sizes,         \* sizes of topology mesh
    old2NewPoint,  \* the point map the reordering hands back
    flags,         \* flags[6] of the boundary block
    bconn,         \* connectivity of topology boundary
    bsizes,        \* sizes of topology boundary
    btype,         \* values of field boundary_type
    res,           \* of the output node: the mesh shape, the boundary shape
    outside,       \* an edge loop has read ids[] outside [0, ids.size())
    m_pc,          \* where point_merge::execute stands
    coordsets,     \* the coordsets argument: the `values` of each set
    tolerance,     \* the tolerance argument, as its number of decimal places
    scale,         \* point_merge::scale
    out_system,    \* point_merge::out_system
    set_i,         \* i of the loop over the coordinate sets
    point_records, \* point_merge::point_records, a map from keys to records
    output,        \* the x, y, z arrays of the output coordinate set
    call,          \* which call of execute this is: "first", "remerge" (a
                   \* fresh merger on the first output) or "again" (the
                   \* same merger a second time)
    first_call     \* the first call as it ended: coordsets, output, records

partVars == <<target, chunks, pc, offsets, dest_rank, dest_domain, placements,
              warnings, send_i, recv_i, posted, msgs, sendLog, recvLog,
              chunks_to_assemble, chunks_to_assemble_domains>>
selVars == <<selections, sel_pc, largest_selection, sel_rank, sel_index>>
tileIn == <<nx, ny, nz, options>>
tileVars == <<tileIn, t_pc, tiler, reorder, M, tiles, tile_i, tile_j, coords,
              ptsPerPlane, conn, sizes, old2NewPoint, flags, bconn, bsizes,
              btype, res, outside>>
mergeVars == <<m_pc, coordsets, tolerance, scale, out_system, set_i,
               point_records, output, call, first_call>>
vars == <<size, partVars, selVars, tileVars, mergeVars>>

\* The variables the partitioning actions leave alone, those the selection
\* actions leave alone, those the tiler's actions leave alone, and those the
\* point merger's actions leave alone.
notPart == <<selVars, tileVars, mergeVars>>
notSel == <<partVars, tileVars, mergeVars>>
notTile == <<size, partVars, selVars, mergeVars>>
notMerge == <<size, partVars, selVars, tileVars>>

\* ----------------------------------------------------------------- helpers
Ranks == 0 .. (size - 1)

At(v, i) == v[i + 1]

Min(a, b) == IF a < b THEN a ELSE b

RECURSIVE SumSeq(_)
SumSeq(s) == IF s = <<>> THEN 0 ELSE Head(s) + SumSeq(Tail(s))

Fill(n, x) == [i \in 1 .. n |-> x]

Range(s) == {s[i] : i \in DOMAIN s}

\* ------------------------------------------------------------- map_chunks
\* nglobal_chunks after MPI_Allgather: the chunk count of every rank.
NGlobalChunks == [i \in 1 .. size |-> Len(chunks[i - 1])]

\* ntotal_chunks: the sum of nglobal_chunks.
NTotalChunks(nglobal_chunks) == SumSeq(nglobal_chunks)

\* A faulty variant of OffsetsLoop: adds the count of rank i, not of rank i-1.
RECURSIVE OffsetsLoopShifted(_, _, _)
OffsetsLoopShifted(nglobal_chunks, i, offs) ==
    IF i >= Len(nglobal_chunks) THEN offs
    ELSE OffsetsLoopShifted(nglobal_chunks, i + 1,
            [offs EXCEPT ![i + 1] = At(offs, i - 1) + At(nglobal_chunks, i)])

\* offsets[0] = 0, offsets[i] = offsets[i-1] + nglobal_chunks[i-1].
RECURSIVE OffsetsLoop(_, _, _)
OffsetsLoop(nglobal_chunks, i, offs) ==
    IF i >= Len(nglobal_chunks) THEN offs
    ELSE OffsetsLoop(nglobal_chunks, i + 1,
            [offs EXCEPT ![i + 1] = At(offs, i - 1) + At(nglobal_chunks, i - 1)])

Offsets(nglobal_chunks) ==
    OffsetsLoop(nglobal_chunks, 1, Fill(Len(nglobal_chunks), 0))

\* local_chunk_info of rank r.
LocalChunkInfo(r) ==
    [i \in 1 .. Len(chunks[r]) |->
        [num_elements       |-> chunks[r][i].mesh.num_elements,
         destination_rank   |-> chunks[r][i].destination_rank,
         destination_domain |-> chunks[r][i].destination_domain]]

\* MPI_Allgatherv: the block of rank q, counts[q] long, lands at displs[q].
Allgatherv(counts, displs) ==
    [g1 \in 1 .. NTotalChunks(counts) |->
        LET g == g1 - 1
            from == {q \in Ranks : /\ At(displs, q) <= g
                                   /\ g < At(displs, q) + At(counts, q)}
        IN  IF from = {}
            THEN [num_elements |-> 0, destination_rank |-> -1,
                  destination_domain |-> -1]
            ELSE LET q == CHOOSE q \in from : TRUE
                 IN  LocalChunkInfo(q)[g - At(displs, q) + 1]]

GlobalChunkInfo ==
    Allgatherv(NGlobalChunks, Offsets(NGlobalChunks))

\* A faulty variant of FreeToMove: takes domain id 0 for a free chunk too.
FreeToMovePositive(global_chunk_info) ==
    Cardinality({i \in DOMAIN global_chunk_info :
                    ~(global_chunk_info[i].destination_domain > 0)})

\* free_to_move: the chunks whose destination_domain is negative.
FreeToMove(global_chunk_info) ==
    Cardinality({i \in DOMAIN global_chunk_info :
                    ~(global_chunk_info[i].destination_domain >= 0)})

\* domain_sizes: domain id -> number of chunks that name it.
DomainSizes(global_chunk_info) ==
    LET ids == {global_chunk_info[i].destination_domain :
                   i \in {j \in DOMAIN global_chunk_info :
                             global_chunk_info[j].destination_domain >= 0}}
    IN  [d \in ids |-> Cardinality({i \in DOMAIN global_chunk_info :
                          global_chunk_info[i].destination_domain = d})]

\* The warning test of the pinned branch.
WarnsTarget(domain_sizes) ==
    /\ DOMAIN domain_sizes # {}
    /\ Cardinality(DOMAIN domain_sizes) # target

\* A faulty variant of MinIndexLoop: the comparison is reversed.
RECURSIVE MinIndexLoopGreatest(_, _, _)
MinIndexLoopGreatest(next, r, idx) ==
    IF r >= Len(next) THEN idx
    ELSE MinIndexLoopGreatest(next, r + 1,
                              IF At(next, r) > At(next, idx) THEN r ELSE idx)

\* A faulty variant of MinIndexLoop: <= lets the last of equal counts win.
RECURSIVE MinIndexLoopLastTie(_, _, _)
MinIndexLoopLastTie(next, r, idx) ==
    IF r >= Len(next) THEN idx
    ELSE MinIndexLoopLastTie(next, r + 1,
                             IF At(next, r) <= At(next, idx) THEN r ELSE idx)

\* The scan for the index of the least next_target_element_counts.
RECURSIVE MinIndexLoop(_, _, _)
MinIndexLoop(next, r, idx) ==
    IF r >= Len(next) THEN idx
    ELSE MinIndexLoop(next, r + 1,
                      IF At(next, r) < At(next, idx) THEN r ELSE idx)

MinIndex(next) == MinIndexLoop(next, 1, 0)

\* One pass of the placement loop, for chunk i: st holds
\* target_element_counts, global_dest_domain and the counts after each pass.
PlaceChunk(global_chunk_info, i, st) ==
    LET n == At(global_chunk_info, i).num_elements
        next_target_element_counts ==
            [t \in 1 .. Len(st.target_element_counts) |->
                st.target_element_counts[t] + n]
        idx == MinIndex(next_target_element_counts)
        counts == [st.target_element_counts EXCEPT ![idx + 1] = @ + n]
    IN  [target_element_counts |-> counts,
         global_dest_domain |-> [st.global_dest_domain EXCEPT ![i + 1] = idx],
         log |-> Append(st.log, counts)]

RECURSIVE PlaceLoop(_, _, _)
PlaceLoop(global_chunk_info, i, st) ==
    IF i >= Len(global_chunk_info) THEN st
    ELSE PlaceLoop(global_chunk_info, i + 1,
                   PlaceChunk(global_chunk_info, i, st))

PlaceAll(global_chunk_info) ==
    PlaceLoop(global_chunk_info, 0,
              [target_element_counts |-> Fill(target, 0),
               global_dest_domain |-> Fill(Len(global_chunk_info), 0),
               log |-> <<>>])

\* rank_domain_count[i % divsize]++ for every i below target.
RankDomainCount ==
    LET divsize == Min(size, target)
    IN  [r1 \in 1 .. size |->
            Cardinality({i \in 0 .. (target - 1) : i % divsize = r1 - 1})]

\* The loop over ranks r that gives rank r its rank_domain_count[r] next
\* domains, target_id onwards, and stops at the first rank with none.
RECURSIVE SpreadLoop(_, _, _, _, _)
SpreadLoop(rank_domain_count, global_dest_domain, r, target_id, gdr) ==
    IF r >= size \/ At(rank_domain_count, r) = 0 THEN gdr
    ELSE LET cnt == At(rank_domain_count, r)
             mine == target_id .. (target_id + cnt - 1)
         IN  SpreadLoop(rank_domain_count, global_dest_domain, r + 1,
                        target_id + cnt,
                        [i \in DOMAIN gdr |->
                            IF global_dest_domain[i] \in mine
                            THEN r ELSE gdr[i]])

\* A variant of GlobalDestRank that deals the domains in turn: domain d goes
\* to rank d mod min(size, target).
GlobalDestRankRoundRobin(global_dest_domain) ==
    [i \in DOMAIN global_dest_domain |->
        global_dest_domain[i] % Min(size, target)]

GlobalDestRank(global_dest_domain) ==
    SpreadLoop(RankDomainCount, global_dest_domain, 0, 0,
               Fill(Len(global_dest_domain), -1))

\* A faulty variant of PassRank: pushes the destination_domain instead.
PassRankDomain(global_chunk_info) ==
    [i \in DOMAIN global_chunk_info |-> global_chunk_info[i].destination_domain]

\* The pinned branch pushes every chunk's destination_rank ...
PassRank(global_chunk_info) ==
    [i \in DOMAIN global_chunk_info |-> global_chunk_info[i].destination_rank]

\* ... and its destination_domain.
PassDomain(global_chunk_info) ==
    [i \in DOMAIN global_chunk_info |-> global_chunk_info[i].destination_domain]

\* map_chunks on rank r, all chunks pinned (free_to_move == 0).
MapPinned(r) ==
    LET info == GlobalChunkInfo
    IN  /\ pc[r] = "map"
        /\ FreeToMove(info) = 0
        /\ warnings' = [warnings EXCEPT
               ![r] = IF WarnsTarget(DomainSizes(info)) THEN @ + 1 ELSE @]
        /\ dest_rank' = [dest_rank EXCEPT ![r] = PassRank(info)]
        /\ dest_domain' = [dest_domain EXCEPT ![r] = PassDomain(info)]
        /\ offsets' = [offsets EXCEPT ![r] = Offsets(NGlobalChunks)]
        /\ pc' = [pc EXCEPT ![r] = "comm"]
        /\ UNCHANGED <<size, target, chunks, placements, send_i, recv_i,
                       posted, msgs, sendLog, recvLog, chunks_to_assemble,
                       chunks_to_assemble_domains, notPart>>

\* map_chunks on rank r, all chunks free (free_to_move == ntotal_chunks).
MapFree(r) ==
    LET info == GlobalChunkInfo
        placed == PlaceAll(info)
    IN  /\ pc[r] = "map"
        /\ FreeToMove(info) # 0
        /\ FreeToMove(info) = NTotalChunks(NGlobalChunks)
        /\ placements' = [placements EXCEPT ![r] = placed.log]
        /\ dest_rank' = [dest_rank EXCEPT
               ![r] = GlobalDestRank(placed.global_dest_domain)]
        /\ dest_domain' = [dest_domain EXCEPT ![r] = placed.global_dest_domain]
        /\ offsets' = [offsets EXCEPT ![r] = Offsets(NGlobalChunks)]
        /\ pc' = [pc EXCEPT ![r] = "comm"]
        /\ UNCHANGED <<size, target, chunks, warnings, send_i, recv_i,
                       posted, msgs, sendLog, recvLog, chunks_to_assemble,
                       chunks_to_assemble_domains, notPart>>

\* map_chunks on rank r, pinned and free chunks mixed: CONDUIT_ERROR.
MapMixed(r) ==
    LET info == GlobalChunkInfo
    IN  /\ pc[r] = "map"
        /\ FreeToMove(info) # 0
        /\ FreeToMove(info) # NTotalChunks(NGlobalChunks)
        /\ pc' = [pc EXCEPT ![r] = "error"]
        /\ UNCHANGED <<size, target, chunks, offsets, dest_rank, dest_domain,
                       placements, warnings, send_i, recv_i, posted, msgs,
                       sendLog, recvLog, chunks_to_assemble,
                       chunks_to_assemble_domains, notPart>>

\* ----------------------------------------------------- communicate_chunks
\* A faulty variant of SrcRankLoop: the entries are set to r, not r-1.
RECURSIVE SrcRankLoopSelf(_, _, _)
SrcRankLoopSelf(offs, r, filled) ==
    IF r >= Len(offs) THEN filled
    ELSE SrcRankLoopSelf(offs, r + 1,
                         filled \o Fill(At(offs, r) - At(offs, r - 1), r))

\* src_rank: size-1 everywhere, then for r = 1 .. offsets.size()-1 the next
\* offsets[r] - offsets[r-1] entries are set to r-1.
RECURSIVE SrcRankLoop(_, _, _)
SrcRankLoop(offs, r, filled) ==
    IF r >= Len(offs) THEN filled
    ELSE SrcRankLoop(offs, r + 1,
                     filled \o Fill(At(offs, r) - At(offs, r - 1), r - 1))

SrcRank(offs, n) ==
    LET filled == SrcRankLoop(offs, 1, <<>>)
    IN  [g1 \in 1 .. n |-> IF g1 <= Len(filled) THEN filled[g1] ELSE size - 1]

\* A faulty variant of Tag: the global chunk index is left out.
TagBase(gidx) == PARTITION_TAG_BASE

\* The tag of global chunk gidx.
Tag(gidx) == PARTITION_TAG_BASE + gidx

\* The local chunks i of rank r, from send_i on, that must migrate.
ToSend(r) ==
    {i \in send_i[r] .. (Len(chunks[r]) - 1) :
        At(dest_rank[r], At(offsets[r], r) + i) # r}

\* A faulty variant of ToAssemble: only the chunks of this rank's own slice.
ToAssembleOwn(r) ==
    {i \in recv_i[r] .. (Len(dest_rank[r]) - 1) :
        /\ At(dest_rank[r], i) = r
        /\ i >= At(offsets[r], r)
        /\ i < At(offsets[r], r) + Len(chunks[r])}

\* The global chunks i, from recv_i on, that rank r assembles.
ToAssemble(r) ==
    {i \in recv_i[r] .. (Len(dest_rank[r]) - 1) : At(dest_rank[r], i) = r}

\* this_rank_already_owns_it
AlreadyOwns(r, gidx) ==
    LET start == At(offsets[r], r)
        end == start + Len(chunks[r])
    IN  gidx >= start /\ gidx < end

\* A faulty variant of Renumber: state/domain_id is left as it came.
RenumberNot(mesh, i) == mesh

\* (*n_recv)["state/domain_id"] = i
Renumber(mesh, i) == [mesh EXCEPT !.domain_id = i]

\* has_path("state/cycle"), has_path("state/time"): an entry of the state
\* subtree is a set, empty when the mesh has no such entry.
HasCycle(mesh) == mesh.cycle # {}

HasTime(mesh) == mesh.time # {}

\* A faulty variant of WrapperOf: state/cycle and state/time are not carried.
WrapperOfBare(mesh, i) ==
    Renumber([id |-> mesh.id, num_elements |-> mesh.num_elements,
              cycle |-> {}, time |-> {}, domain_id |-> -1], i)

\* The wrapper of a chunk that stays: a new node whose non-state children
\* refer to those of the input (set_external_node), with state/cycle and
\* state/time of the input when it has them, then its own state/domain_id.
WrapperOf(mesh, i) ==
    LET refs == [id |-> mesh.id, num_elements |-> mesh.num_elements,
                 cycle |-> {}, time |-> {}, domain_id |-> -1]
        withCycle == IF HasCycle(mesh)
                     THEN [refs EXCEPT !.cycle = mesh.cycle] ELSE refs
        withTime == IF HasTime(mesh)
                    THEN [withCycle EXCEPT !.time = mesh.time] ELSE withCycle
    IN  Renumber(withTime, i)

Least(S) == CHOOSE x \in S : \A y \in S : x <= y

\* The send loop reaches the next chunk that migrates and sends it.
Send(r) ==
    /\ pc[r] = "comm"
    /\ ToSend(r) # {}
    /\ LET i == Least(ToSend(r))
           gidx == At(offsets[r], r) + i
           tag == Tag(gidx)
           dest == At(dest_rank[r], gidx)
       IN  /\ msgs' = msgs \cup {[src |-> r, dest |-> dest, tag |-> tag,
                                  mesh |-> At(chunks[r], i).mesh]}
           /\ sendLog' = [sendLog EXCEPT
                  ![r] = Append(@, [dest |-> dest, tag |-> tag])]
           /\ send_i' = [send_i EXCEPT ![r] = i + 1]
    /\ UNCHANGED <<size, target, chunks, pc, offsets, dest_rank, dest_domain,
                   placements, warnings, recv_i, posted, recvLog,
                   chunks_to_assemble, chunks_to_assemble_domains, notPart>>

\* The same step when nothing buffers a message: send_using_schema returns
\* only once the destination rank has posted the matching receive.
SendSync(r) ==
    /\ pc[r] = "comm"
    /\ ToSend(r) # {}
    /\ LET i == Least(ToSend(r))
           gidx == At(offsets[r], r) + i
           dest == At(dest_rank[r], gidx)
       IN  [src |-> r, tag |-> Tag(gidx)] \in posted[dest]
    /\ Send(r)

\* The receive loop reaches a chunk this rank already owns and wraps it.
Wrap(r) ==
    /\ pc[r] = "comm"
    /\ ToSend(r) = {}
    /\ posted[r] = {}
    /\ ToAssemble(r) # {}
    /\ LET i == Least(ToAssemble(r))
           local_i == i - At(offsets[r], r)
       IN  /\ AlreadyOwns(r, i)
           /\ chunks_to_assemble' = [chunks_to_assemble EXCEPT
                  ![r] = Append(@,
                      [mesh |-> WrapperOf(At(chunks[r], local_i).mesh, i),
                       owned |-> TRUE, external |-> TRUE])]
           /\ chunks_to_assemble_domains' = [chunks_to_assemble_domains EXCEPT
                  ![r] = Append(@, At(dest_domain[r], i))]
           /\ recv_i' = [recv_i EXCEPT ![r] = i + 1]
    /\ UNCHANGED <<size, target, chunks, pc, offsets, dest_rank, dest_domain,
                   placements, warnings, send_i, posted, msgs, sendLog,
                   recvLog, notPart>>

\* The receive loop reaches a chunk of another rank: recv_using_schema is
\* called and blocks.
PostRecv(r) ==
    /\ pc[r] = "comm"
    /\ ToSend(r) = {}
    /\ posted[r] = {}
    /\ ToAssemble(r) # {}
    /\ LET i == Least(ToAssemble(r))
           src_rank == SrcRank(offsets[r], Len(dest_rank[r]))
       IN  /\ ~AlreadyOwns(r, i)
           /\ posted' = [posted EXCEPT
                  ![r] = {[src |-> At(src_rank, i), tag |-> Tag(i)]}]
           /\ recvLog' = [recvLog EXCEPT
                  ![r] = Append(@, [src |-> At(src_rank, i), tag |-> Tag(i)])]
           /\ recv_i' = [recv_i EXCEPT ![r] = i]
    /\ UNCHANGED <<size, target, chunks, pc, offsets, dest_rank, dest_domain,
                   placements, warnings, send_i, msgs, sendLog,
                   chunks_to_assemble, chunks_to_assemble_domains, notPart>>

\* recv_using_schema returns with the message of the posted source and tag;
\* the received chunk is renumbered and pushed.
CompleteRecv(r) ==
    /\ pc[r] = "comm"
    /\ \E p \in posted[r] : \E m \in msgs :
          /\ m.dest = r
          /\ m.src = p.src
          /\ m.tag = p.tag
          /\ LET i == recv_i[r]
             IN  /\ msgs' = msgs \ {m}
                 /\ chunks_to_assemble' = [chunks_to_assemble EXCEPT
                        ![r] = Append(@,
                            [mesh |-> Renumber(m.mesh, i),
                             owned |-> TRUE, external |-> FALSE])]
                 /\ chunks_to_assemble_domains' =
                        [chunks_to_assemble_domains EXCEPT
                            ![r] = Append(@, At(dest_domain[r], i))]
                 /\ recv_i' = [recv_i EXCEPT ![r] = i + 1]
    /\ posted' = [posted EXCEPT ![r] = {}]
    /\ UNCHANGED <<size, target, chunks, pc, offsets, dest_rank, dest_domain,
                   placements, warnings, send_i, sendLog, recvLog, notPart>>

\* Both loops are over: communicate_chunks returns.
Finish(r) ==
    /\ pc[r] = "comm"
    /\ ToSend(r) = {}
    /\ posted[r] = {}
    /\ ToAssemble(r) = {}
    /\ pc' = [pc EXCEPT ![r] = "done"]
    /\ UNCHANGED <<size, target, chunks, offsets, dest_rank, dest_domain,
                   placements, warnings, send_i, recv_i, posted, msgs,
                   sendLog, recvLog, chunks_to_assemble,
                   chunks_to_assemble_domains, notPart>>

\* -------------------------------------------------- get_largest_selection
\* The local scan for the largest selection length; value starts at 0.
RECURSIVE LocalLargestLoop(_, _, _)
LocalLargestLoop(local_sizes, i, value) ==
    IF i >= Len(local_sizes) THEN value
    ELSE LocalLargestLoop(local_sizes, i + 1,
            IF At(local_sizes, i) > value THEN At(local_sizes, i) ELSE value)

LocalLargest(local_sizes) == LocalLargestLoop(local_sizes, 0, 0)

\* MPI_MAXLOC on two (value, rank) pairs: the larger value, and the lower
\* rank when the values are equal.
MaxLocOp(a, b) ==
    IF a.value > b.value THEN a
    ELSE IF a.value < b.value THEN b
    ELSE [value |-> a.value, rank |-> Min(a.rank, b.rank)]

RECURSIVE MaxLocLoop(_, _, _)
MaxLocLoop(operands, q, acc) ==
    IF q >= size THEN acc
    ELSE MaxLocLoop(operands, q + 1, MaxLocOp(acc, operands[q]))

\* MPI_Allreduce(..., MPI_LONG_INT, MPI_MAXLOC, comm)
AllreduceMaxLoc(operands) == MaxLocLoop(operands, 1, operands[0])

\* A faulty variant of SelIndexLoop: without the break the last match wins.
RECURSIVE SelIndexLoopNoBreak(_, _, _)
SelIndexLoopNoBreak(local_sizes, i, ssize) ==
    IF i >= Len(local_sizes) THEN -1
    ELSE LET rest == SelIndexLoopNoBreak(local_sizes, i + 1, ssize)
         IN  IF rest # -1 THEN rest
             ELSE IF ssize = At(local_sizes, i) THEN i ELSE -1

\* The scan for the first local selection of length ssize; -1 when none.
RECURSIVE SelIndexLoop(_, _, _)
SelIndexLoop(local_sizes, i, ssize) ==
    IF i >= Len(local_sizes) THEN -1
    ELSE IF ssize = At(local_sizes, i) THEN i
    ELSE SelIndexLoop(local_sizes, i + 1, ssize)

SelIndex(r, global_largest_selection) ==
    IF global_largest_selection.rank = r
    THEN SelIndexLoop(selections[r], 0, global_largest_selection.value)
    ELSE -1

\* Rank r finds its largest selection and enters MPI_Allreduce.
SelLocal(r) ==
    /\ sel_pc[r] = "local"
    /\ largest_selection' = [largest_selection EXCEPT
           ![r] = [value |-> LocalLargest(selections[r]), rank |-> r]]
    /\ sel_pc' = [sel_pc EXCEPT ![r] = "reduce"]
    /\ UNCHANGED <<size, selections, sel_rank, sel_index, notSel>>

\* MPI_Allreduce returns on rank r once every rank has entered it; rank r
\* sets its out-parameters.
SelReduce(r) ==
    /\ sel_pc[r] = "reduce"
    /\ \A q \in Ranks : sel_pc[q] # "local"
    /\ LET global_largest_selection == AllreduceMaxLoc(largest_selection)
       IN  /\ sel_rank' = [sel_rank EXCEPT
                  ![r] = global_largest_selection.rank]
           /\ sel_index' = [sel_index EXCEPT
                  ![r] = SelIndex(r, global_largest_selection)]
    /\ sel_pc' = [sel_pc EXCEPT ![r] = "done"]
    /\ UNCHANGED <<size, selections, largest_selection, notSel>>

\* -------------------------------------------------------------- tiled mesh
\* Tiler::generate of conduit_blueprint_mesh_examples_tiled.cpp (specification
\* SpecTile). Coordinates are integers: the patterns drawn have integer
\* coordinates and the `extents` option is absent, so the transform M scales
\* by 1 and translates by whole tile sizes.
INVALID_POINT == -1

BoundaryLeft == 0

BoundaryRight == 1

BoundaryBottom == 2

BoundaryTop == 3

BoundaryBack == 4

BoundaryFront == 5

Max(a, b) == IF a > b THEN a ELSE b

\* ss[k] \o ... \o ss[n]
RECURSIVE ConcatLoop(_, _, _)
ConcatLoop(ss, k, n) ==
    IF k > n THEN <<>> ELSE ss[k] \o ConcatLoop(ss, k + 1, n)

\* The n sequences ss[1] .. ss[n] joined into one.
Concat(n, ss) == ConcatLoop(ss, 1, n)

\* The value an option holds; an option is a set, empty when it is absent.
Value(opt) == CHOOSE v \in opt : TRUE

\* The loop of computeExtents, ext = {least, greatest} so far.
RECURSIVE ExtentsLoop(_, _, _)
ExtentsLoop(values, k, ext) ==
    IF k > Len(values) THEN ext
    ELSE ExtentsLoop(values, k + 1,
             <<Min(ext[1], values[k]), Max(ext[2], values[k])>>)

ComputeExtents(values) ==
    LET ext == ExtentsLoop(values, 1, <<values[1], values[1]>>)
    IN  ext[2] - ext[1]

\* Tiler::initialize(): the default pattern.
DefaultPattern ==
    LET xpts == << 0, 3, 10, 17, 20,
                   0, 3, 17, 20,
                   5, 15,
                   7, 10, 13,
                   0, 7, 10, 13, 20,
                   7, 10, 13,
                   5, 15,
                   0, 3, 17, 20,
                   0, 3, 10, 17, 20 >>
        ypts == << 0, 0, 0, 0, 0,
                   3, 3, 3, 3,
                   5, 5,
                   7, 7, 7,
                   10, 10, 10, 10, 10,
                   13, 13, 13,
                   15, 15,
                   17, 17, 17, 17,
                   20, 20, 20, 20, 20 >>
    IN  [m_xpts |-> xpts,
         m_ypts |-> ypts,
         m_quads |-> << 0, 1, 6, 5,
                        1, 2, 9, 6,
                        2, 12, 11, 9,
                        5, 6, 9, 14,
                        9, 11, 15, 14,
                        11, 12, 16, 15,
                        2, 3, 7, 10,
                        3, 4, 8, 7,
                        7, 8, 18, 10,
                        2, 10, 13, 12,
                        12, 13, 17, 16,
                        10, 18, 17, 13,
                        14, 22, 25, 24,
                        14, 15, 19, 22,
                        15, 16, 20, 19,
                        24, 25, 29, 28,
                        22, 30, 29, 25,
                        19, 20, 30, 22,
                        16, 17, 21, 20,
                        17, 18, 23, 21,
                        18, 27, 26, 23,
                        20, 21, 23, 30,
                        23, 26, 31, 30,
                        26, 27, 32, 31 >>,
         m_left |-> <<0, 5, 14, 24, 28>>,
         m_right |-> <<4, 8, 18, 27, 32>>,
         m_bottom |-> <<0, 1, 2, 3, 4>>,
         m_top |-> <<28, 29, 30, 31, 32>>,
         m_width |-> ComputeExtents(xpts),
         m_height |-> ComputeExtents(ypts)]

\* Tiler::initialize(const Node &t): the pattern of the `tile` option, taken
\* as it comes.
Initialize(t) ==
    [m_xpts |-> t.x,
     m_ypts |-> t.y,
     m_quads |-> t.quads,
     m_left |-> t.left,
     m_right |-> t.right,
     m_bottom |-> t.bottom,
     m_top |-> t.top,
     m_width |-> ComputeExtents(t.x),
     m_height |-> ComputeExtents(t.y)]

\* reorder = options["reorder"].to_int() > 0, true when the option is absent.
ReorderFlag(opts) ==
    IF opts.reorder # {} THEN Value(opts.reorder) > 0 ELSE TRUE

\* Both `domain` and `domains` are present and hold 3 elements each.
HasDomains(opts) ==
    /\ opts.domain # {}
    /\ opts.domains # {}
    /\ Len(Value(opts.domain)) = 3
    /\ Len(Value(opts.domain)) = Len(Value(opts.domains))

\* z1 before the options are looked at.
DepthOf(t, n_z) == Max(t.m_width, t.m_height) * n_z

\* origin[0 .. 2] of generate (no `extents`).
Origin(opts, t, n_x, n_y, n_z) ==
    IF HasDomains(opts)
    THEN <<At(Value(opts.domain), 0) * n_x * t.m_width,
           At(Value(opts.domain), 1) * n_y * t.m_height,
           At(Value(opts.domain), 2) * DepthOf(t, n_z)>>
    ELSE <<0, 0, 0>>

\* z1 of generate (no `extents`).
Z1(opts, t, n_x, n_y, n_z) ==
    IF HasDomains(opts)
    THEN At(Origin(opts, t, n_x, n_y, n_z), 2) + DepthOf(t, n_z)
    ELSE DepthOf(t, n_z)

\* Tile::reset
Reset(npts) == Fill(npts, INVALID_POINT)

\* Tile::getPointIds(indices)
GetPointIds(ptids, indices) ==
    [k \in 1 .. Len(indices) |-> At(ptids, indices[k])]

\* A faulty variant of SetPointIdsLoop: the ids are stored one place late.
RECURSIVE SetPointIdsLoopShifted(_, _, _, _)
SetPointIdsLoopShifted(ptids, indices, ids, i) ==
    IF i >= Len(indices) THEN ptids
    ELSE SetPointIdsLoopShifted(
             [ptids EXCEPT ![At(indices, i) + 1] = At(ids, (i + 1) % Len(ids))],
             indices, ids, i + 1)

\* The loop of Tile::setPointIds from index i on.
RECURSIVE SetPointIdsLoop(_, _, _, _)
SetPointIdsLoop(ptids, indices, ids, i) ==
    IF i >= Len(indices) THEN ptids
    ELSE SetPointIdsLoop([ptids EXCEPT ![At(indices, i) + 1] = At(ids, i)],
                         indices, ids, i + 1)

SetPointIds(ptids, indices, ids) == SetPointIdsLoop(ptids, indices, ids, 0)

\* A faulty variant of AddPointsLoop: every point of the tile is created,
\* shared or not.
RECURSIVE AddPointsLoopAll(_, _, _, _)
AddPointsLoopAll(t, mat, i, st) ==
    IF i >= Len(t.m_xpts) THEN st
    ELSE AddPointsLoopAll(t, mat, i + 1,
             [ptids |-> [st.ptids EXCEPT ![i + 1] = Len(st.x)],
              x |-> Append(st.x, At(t.m_xpts, i) + At(At(mat, 2), 0)),
              y |-> Append(st.y, At(t.m_ypts, i) + At(At(mat, 2), 1))])

\* The loop of Tiler::addPoints from template point i on; st holds ptids and
\* the coordinate arrays x and y.
RECURSIVE AddPointsLoop(_, _, _, _)
AddPointsLoop(t, mat, i, st) ==
    IF i >= Len(t.m_xpts) THEN st
    ELSE IF At(st.ptids, i) = INVALID_POINT
         THEN LET px == At(t.m_xpts, i)
                  py == At(t.m_ypts, i)
                  xc == px * At(At(mat, 0), 0) + py * At(At(mat, 1), 0)
                            + At(At(mat, 2), 0)
                  yc == px * At(At(mat, 0), 1) + py * At(At(mat, 1), 1)
                            + At(At(mat, 2), 1)
                  h  == px * At(At(mat, 0), 2) + py * At(At(mat, 1), 2)
                            + At(At(mat, 2), 2)
              IN  AddPointsLoop(t, mat, i + 1,
                      [ptids |-> [st.ptids EXCEPT ![i + 1] = Len(st.x)],
                       x |-> Append(st.x, xc \div h),
                       y |-> Append(st.y, yc \div h)])
         ELSE AddPointsLoop(t, mat, i + 1, st)

AddPoints(t, mat, ptids, xs, ys) ==
    AddPointsLoop(t, mat, 0, [ptids |-> ptids, x |-> xs, y |-> ys])

\* Tiler::iterateFaces: the faces handed to body, in order.
IterateFaces(t, ptids, offset, reverse, stype) ==
    LET nquads == Len(t.m_quads) \div 4
        order == IF reverse THEN <<3, 2, 1, 0>> ELSE <<0, 1, 2, 3>>
    IN  [q \in 1 .. nquads |->
            [ids |-> [c \in 1 .. 4 |->
                         offset + At(ptids, At(t.m_quads,
                                                4 * (q - 1) + At(order, c - 1)))],
             bnd |-> stype]]

\* A faulty variant of AddHexs: the second plane is the first one again.
AddHexsFlat(t, ptids, plane1Offset, plane2Offset) ==
    LET nquads == Len(t.m_quads) \div 4
    IN  [q \in 1 .. nquads |->
            [ids |-> [c \in 1 .. 8 |->
                plane1Offset + At(ptids, At(t.m_quads,
                                            4 * (q - 1) + ((c - 1) % 4)))]]]

\* Tiler::addHexs: the hexes pushed to conn, 8 ids each (sizes gets an 8
\* for each).
AddHexs(t, ptids, plane1Offset, plane2Offset) ==
    LET nquads == Len(t.m_quads) \div 4
    IN  [q \in 1 .. nquads |->
            [ids |-> [c \in 1 .. 8 |->
                (IF c <= 4 THEN plane1Offset ELSE plane2Offset)
                + At(ptids, At(t.m_quads, 4 * (q - 1) + ((c - 1) % 4)))]]]

\* A faulty variant of BoundaryFlags: every side is always enabled.
BoundaryFlagsAll(opts) == Fill(6, TRUE)

\* Tiler::boundaryFlags
BoundaryFlags(opts) ==
    IF HasDomains(opts)
    THEN LET domain == Value(opts.domain)
             domains == Value(opts.domains)
             ndoms == At(domains, 0) * At(domains, 1) * At(domains, 2)
         IN  IF ndoms > 1
             THEN <<At(domain, 0) = 0,
                    At(domain, 0) = At(domains, 0) - 1,
                    At(domain, 1) = 0,
                    At(domain, 1) = At(domains, 1) - 1,
                    At(domain, 2) = 0,
                    At(domain, 2) = At(domains, 2) - 1>>
             ELSE Fill(6, TRUE)
    ELSE Fill(6, TRUE)

\* ids.size() - 1 in size_t: below zero it wraps to the greatest value.
LoopBound(ids) == (Len(ids) - 1) % (2 ^ SizeBits)

\* Both inner loops read ids[] up to position LoopBound(ids) when that is
\* above 0 ("bi < ids.size() - 1" reads ids[bi + 1], "bi = ids.size() - 1;
\* bi > 0" starts with ids[bi]): the position lies outside the vector when
\* the bound has wrapped.
ReadsOutside(ids) == LoopBound(ids) > 0 /\ LoopBound(ids) >= Len(ids)

\* The inner loop "for bi = 0; bi < ids.size() - 1; bi++": the face between
\* ids[bi] and ids[bi + 1], stretched over the planes at offset1 and offset2
\* when extrude holds. These are the faces of the turns that read inside
\* ids[]; what a turn outside does is undefined and is settled where
\* the boundary is made.
EdgeForward(ids, offset1, offset2, extrude, bnd) ==
    [b \in 1 .. (Len(ids) - 1) |->
        LET bi == b - 1
        IN  [ids |-> IF extrude
                     THEN <<offset1 + At(ids, bi), offset1 + At(ids, bi + 1),
                            offset2 + At(ids, bi + 1), offset2 + At(ids, bi)>>
                     ELSE <<At(ids, bi), At(ids, bi + 1)>>,
             bnd |-> bnd]]

\* A faulty variant of EdgeBackward: the segments keep their direction but
\* one more closes the edge.
EdgeBackwardClosed(ids, offset1, offset2, extrude, bnd) ==
    [b \in 1 .. Len(ids) |->
        LET bi == (Len(ids) - b) % Len(ids)
            bj == (Len(ids) - b - 1) % Len(ids)
        IN  [ids |-> IF extrude
                     THEN <<offset1 + At(ids, bi), offset1 + At(ids, bj),
                            offset2 + At(ids, bj), offset2 + At(ids, bi)>>
                     ELSE <<At(ids, bi), At(ids, bj)>>,
             bnd |-> bnd]]

\* A faulty variant of EdgeBackward: the edge is walked forward.
EdgeBackwardForward(ids, offset1, offset2, extrude, bnd) ==
    EdgeForward(ids, offset1, offset2, extrude, bnd)

\* The inner loop "for bi = ids.size() - 1; bi > 0; bi--": the face between
\* ids[bi] and ids[bi - 1].
EdgeBackward(ids, offset1, offset2, extrude, bnd) ==
    [b \in 1 .. (Len(ids) - 1) |->
        LET bi == Len(ids) - b
        IN  [ids |-> IF extrude
                     THEN <<offset1 + At(ids, bi), offset1 + At(ids, bi - 1),
                            offset2 + At(ids, bi - 1), offset2 + At(ids, bi)>>
                     ELSE <<At(ids, bi), At(ids, bi - 1)>>,
             bnd |-> bnd]]

\* left(), right(), bottom(), top()
EdgeOf(t, side) ==
    CASE side = BoundaryLeft -> t.m_left
      [] side = BoundaryRight -> t.m_right
      [] side = BoundaryBottom -> t.m_bottom
      [] side = BoundaryTop -> t.m_top

\* The enabled sides whose loop reads outside the edge ids of a tile.
WildSides(t, flgs) ==
    {side \in {BoundaryLeft, BoundaryRight, BoundaryBottom, BoundaryTop} :
        At(flgs, side) /\ ReadsOutside(EdgeOf(t, side))}

\* The four sides of one layer, as iterateBoundary2D and iterateBoundary3D
\* walk them: Left down the first column, Bottom along the first row, Right
\* up the last column, Top back along the last row.
SideLeft(t, tls, n_x, n_y, offset1, offset2, extrude) ==
    Concat(n_y, [k \in 1 .. n_y |->
        EdgeBackward(GetPointIds(At(tls, (n_y - k) * n_x), t.m_left),
                     offset1, offset2, extrude, BoundaryLeft)])

SideBottom(t, tls, n_x, n_y, offset1, offset2, extrude) ==
    Concat(n_x, [k \in 1 .. n_x |->
        EdgeForward(GetPointIds(At(tls, k - 1), t.m_bottom),
                    offset1, offset2, extrude, BoundaryBottom)])

SideRight(t, tls, n_x, n_y, offset1, offset2, extrude) ==
    Concat(n_y, [k \in 1 .. n_y |->
        EdgeForward(GetPointIds(At(tls, (k - 1) * n_x + n_x - 1), t.m_right),
                    offset1, offset2, extrude, BoundaryRight)])

SideTop(t, tls, n_x, n_y, offset1, offset2, extrude) ==
    Concat(n_x, [k \in 1 .. n_x |->
        EdgeBackward(GetPointIds(At(tls, (n_y - 1) * n_x + n_x - k), t.m_top),
                     offset1, offset2, extrude, BoundaryTop)])

\* Tiler::iterateBoundary2D: the segments handed to body, in order.
IterateBoundary2D(t, tls, n_x, n_y, flgs) ==
    (IF At(flgs, BoundaryLeft)
     THEN SideLeft(t, tls, n_x, n_y, 0, 0, FALSE) ELSE <<>>)
    \o (IF At(flgs, BoundaryBottom)
        THEN SideBottom(t, tls, n_x, n_y, 0, 0, FALSE) ELSE <<>>)
    \o (IF At(flgs, BoundaryRight)
        THEN SideRight(t, tls, n_x, n_y, 0, 0, FALSE) ELSE <<>>)
    \o (IF At(flgs, BoundaryTop)
        THEN SideTop(t, tls, n_x, n_y, 0, 0, FALSE) ELSE <<>>)

\* Tiler::iterateBoundary3D: the quads handed to body, in order.
IterateBoundary3D(t, tls, n_x, n_y, n_z, nPtsPerPlane, flgs) ==
    (IF At(flgs, BoundaryLeft)
     THEN Concat(n_z, [k \in 1 .. n_z |->
              SideLeft(t, tls, n_x, n_y, (k - 1) * nPtsPerPlane,
                       k * nPtsPerPlane, TRUE)])
     ELSE <<>>)
    \o (IF At(flgs, BoundaryRight)
        THEN Concat(n_z, [k \in 1 .. n_z |->
                 SideRight(t, tls, n_x, n_y, (k - 1) * nPtsPerPlane,
                           k * nPtsPerPlane, TRUE)])
        ELSE <<>>)
    \o (IF At(flgs, BoundaryBottom)
        THEN Concat(n_z, [k \in 1 .. n_z |->
                 SideBottom(t, tls, n_x, n_y, (k - 1) * nPtsPerPlane,
                            k * nPtsPerPlane, TRUE)])
        ELSE <<>>)
    \o (IF At(flgs, BoundaryTop)
        THEN Concat(n_z, [k \in 1 .. n_z |->
                 SideTop(t, tls, n_x, n_y, (k - 1) * nPtsPerPlane,
                         k * nPtsPerPlane, TRUE)])
        ELSE <<>>)
    \o (IF At(flgs, BoundaryBack)
        THEN Concat(n_x * n_y, [k \in 1 .. (n_x * n_y) |->
                 LET j == (k - 1) \div n_x
                     i == n_x - 1 - ((k - 1) % n_x)
                 IN  IterateFaces(t, At(tls, j * n_x + i), 0, TRUE,
                                  BoundaryBack)])
        ELSE <<>>)
    \o (IF At(flgs, BoundaryFront)
        THEN Concat(n_x * n_y, [k \in 1 .. (n_x * n_y) |->
                 IterateFaces(t, At(tls, k - 1), n_z * nPtsPerPlane, FALSE,
                              BoundaryFront)])
        ELSE <<>>)

\* The body lambdas that collect faces: the ids of every face go to the
\* connectivity (through old2NewPoint when renumber holds), their number to
\* the sizes and their side to the types. All faces of one call have the
\* same number of ids.
FaceConn(faces, renumber, old2new) ==
    IF faces = <<>> THEN <<>>
    ELSE LET npts == Len(faces[1].ids)
         IN  [k \in 1 .. (npts * Len(faces)) |->
                 LET f == ((k - 1) \div npts) + 1
                     c == ((k - 1) % npts) + 1
                     id == faces[f].ids[c]
                 IN  IF renumber THEN At(old2new, id) ELSE id]

FaceSizes(faces) == [f \in 1 .. Len(faces) |-> Len(faces[f].ids)]

FaceTypes(faces) == [f \in 1 .. Len(faces) |-> faces[f].bnd]

\* What the utilities spatial_ordering and reorder may hand back for nelem
\* elements and npts points. Their code is not part of these sources: the
\* results drawn are two permutations (a reversal and a rotation), elemOrder
\* giving the old element at each new place, old2NewPoint the new id of each
\* old point and new2OldPoint its inverse.
ReorderChoices(nelem, npts) ==
    {[elemOrder |-> [e \in 1 .. nelem |-> nelem - e],
      old2NewPoint |-> [p \in 1 .. npts |-> npts - p],
      new2OldPoint |-> [p \in 1 .. npts |-> npts - p]],
     [elemOrder |-> [e \in 1 .. nelem |-> e % nelem],
      old2NewPoint |-> [p \in 1 .. npts |-> p % npts],
      new2OldPoint |-> [p \in 1 .. npts |-> (p - 2) % npts]]}

\* utils::topology::unstructured::reorder on the connectivity: the elements
\* in their new order, their points renumbered.
ReorderConn(cn, szs, choice) ==
    IF szs = <<>> THEN cn
    ELSE LET s == szs[1]
         IN  [k \in 1 .. Len(cn) |->
                 LET e == (k - 1) \div s
                     c == (k - 1) % s
                 IN  At(choice.old2NewPoint,
                        At(cn, At(choice.elemOrder, e) * s + c))]

\* ... and on a coordinate array.
ReorderCoords(values, choice) ==
    [p \in 1 .. Len(values) |-> At(values, At(choice.new2OldPoint, p - 1))]

\* ---- the steps of generate
\* Lines 404-460: the options are read, the transform is set up.
ProcessOptions ==
    /\ t_pc = "options"
    /\ LET t == IF options.tile # {} THEN Initialize(Value(options.tile))
                ELSE tiler
           origin == Origin(options, t, nx, ny, nz)
           tx == t.m_width
           ty == t.m_height
       IN  /\ tiler' = t
           /\ reorder' = ReorderFlag(options)
           /\ M' = << <<tx \div t.m_width, 0, 0>>,
                      <<0, ty \div t.m_height, 0>>,
                      <<At(origin, 0), At(origin, 1), 1>> >>
    /\ tiles' = [k \in 1 .. (nx * ny) |-> <<>>]
    /\ tile_i' = 0
    /\ tile_j' = 0
    /\ t_pc' = "tiles"
    /\ UNCHANGED <<tileIn, coords, ptsPerPlane, conn, sizes, old2NewPoint,
                   flags, bconn, bsizes, btype, res, outside, notTile>>

\* Lines 464-490: one turn of the inner loop, for the tile (tile_i, tile_j).
MakeTile ==
    /\ t_pc = "tiles"
    /\ tile_j < ny
    /\ LET i == tile_i
           j == tile_j
           origin == Origin(options, tiler, nx, ny, nz)
           fresh == Reset(Len(tiler.m_xpts))
           fromX == IF i > 0
                    THEN SetPointIds(fresh, tiler.m_left,
                             GetPointIds(At(tiles, j * nx + i - 1),
                                         tiler.m_right))
                    ELSE fresh
           fromY == IF j > 0
                    THEN SetPointIds(fromX, tiler.m_bottom,
                             GetPointIds(At(tiles, (j - 1) * nx + i),
                                         tiler.m_top))
                    ELSE fromX
           added == AddPoints(tiler, M, fromY, coords.x, coords.y)
           m20 == At(At(M, 2), 0) + tiler.m_width
           m21 == At(At(M, 2), 1)
       IN  /\ tiles' = [tiles EXCEPT ![j * nx + i + 1] = added.ptids]
           /\ coords' = [coords EXCEPT !.x = added.x, !.y = added.y]
           /\ IF i + 1 < nx
              THEN /\ tile_i' = i + 1
                   /\ tile_j' = j
                   /\ M' = [M EXCEPT ![3] = <<m20, m21, 1>>]
              ELSE /\ tile_i' = 0
                   /\ tile_j' = j + 1
                   /\ M' = [M EXCEPT ![3] =
                              <<IF j + 1 < ny THEN At(origin, 0) ELSE m20,
                                m21 + tiler.m_height, 1>>]
    /\ UNCHANGED <<tileIn, tiler, reorder, t_pc, ptsPerPlane, conn, sizes,
                   old2NewPoint, flags, bconn, bsizes, btype, res, outside,
                   notTile>>

\* Lines 493-512 and 556-569: the quads of a 2D mesh.
AddQuads ==
    /\ t_pc = "tiles"
    /\ tile_j >= ny
    /\ nz < 1
    /\ LET faces == Concat(nx * ny, [k \in 1 .. (nx * ny) |->
                        IterateFaces(tiler, tiles[k], 0, FALSE, BoundaryBack)])
       IN  /\ conn' = FaceConn(faces, FALSE, <<>>)
           /\ sizes' = FaceSizes(faces)
    /\ res' = [res EXCEPT !.shape = IF coords.z = <<>> THEN "quad" ELSE "hex"]
    /\ t_pc' = "reorder"
    /\ UNCHANGED <<tileIn, tiler, reorder, M, tiles, tile_i, tile_j, coords,
                   ptsPerPlane, old2NewPoint, flags, bconn, bsizes, btype,
                   outside, notTile>>

\* Lines 513-553 and 556-569: the planes and the hexes of a 3D mesh.
AddPlanes ==
    /\ t_pc = "tiles"
    /\ tile_j >= ny
    /\ nz >= 1
    /\ LET n == Len(coords.x)
           nplanes == nz + 1
           origin == Origin(options, tiler, nx, ny, nz)
           z1 == Z1(options, tiler, nx, ny, nz)
           zvalue(p) == At(origin, 2) + (p * (z1 - At(origin, 2))) \div (nplanes - 1)
           zs == [k \in 1 .. (n * nplanes) |->
                     IF k <= n THEN At(origin, 2) ELSE zvalue((k - 1) \div n)]
           hexs == Concat(nz * nx * ny, [k \in 1 .. (nz * nx * ny) |->
                       LET offset1 == ((k - 1) \div (nx * ny)) * n
                           offset2 == offset1 + n
                       IN  AddHexs(tiler, At(tiles, (k - 1) % (nx * ny)),
                                   offset1, offset2)])
       IN  /\ ptsPerPlane' = n
           /\ coords' = [x |-> [k \in 1 .. (n * nplanes) |->
                                   At(coords.x, (k - 1) % n)],
                         y |-> [k \in 1 .. (n * nplanes) |->
                                   At(coords.y, (k - 1) % n)],
                         z |-> zs]
           /\ conn' = FaceConn(hexs, FALSE, <<>>)
           /\ sizes' = FaceSizes(hexs)
           /\ res' = [res EXCEPT !.shape = IF zs = <<>> THEN "quad" ELSE "hex"]
    /\ t_pc' = "reorder"
    /\ UNCHANGED <<tileIn, tiler, reorder, M, tiles, tile_i, tile_j,
                   old2NewPoint, flags, bconn, bsizes, btype, outside,
                   notTile>>

\* Lines 607-650, reorder set: elements and points are renumbered.
Reorder ==
    /\ t_pc = "reorder"
    /\ reorder
    /\ \E choice \in ReorderChoices(Len(sizes), Len(coords.x)) :
          /\ old2NewPoint' = choice.old2NewPoint
          /\ conn' = ReorderConn(conn, sizes, choice)
          /\ coords' = [x |-> ReorderCoords(coords.x, choice),
                        y |-> ReorderCoords(coords.y, choice),
                        z |-> ReorderCoords(coords.z, choice)]
    /\ t_pc' = "boundary"
    /\ UNCHANGED <<tileIn, tiler, reorder, M, tiles, tile_i, tile_j,
                   ptsPerPlane, sizes, flags, bconn, bsizes, btype, res,
                   outside, notTile>>

\* Lines 607-650, reorder clear: nothing is renumbered.
KeepOrder ==
    /\ t_pc = "reorder"
    /\ ~reorder
    /\ t_pc' = "boundary"
    /\ UNCHANGED <<tileIn, tiler, reorder, M, tiles, tile_i, tile_j, coords,
                   ptsPerPlane, conn, sizes, old2NewPoint, flags, bconn,
                   bsizes, btype, res, outside, notTile>>

\* Lines 652-725 for nz < 1: the boundary lines of a 2D mesh.
MakeBoundary2D ==
    /\ t_pc = "boundary"
    /\ nz < 1
    /\ LET flgs == BoundaryFlags(options)
           faces == IterateBoundary2D(tiler, tiles, nx, ny, flgs)
           wild == WildSides(tiler, flgs) # {}
       IN  /\ flags' = flgs
           /\ outside' = wild
           /\ \/ /\ bconn' = FaceConn(faces, reorder, old2NewPoint)
                 /\ bsizes' = FaceSizes(faces)
                 /\ btype' = FaceTypes(faces)
                 /\ res' = [res EXCEPT
                        !.boundary = IF faces # <<>> THEN {"line"} ELSE {}]
                 /\ t_pc' = "done"
              \/ /\ wild
                 /\ t_pc' = "fault"
                 /\ UNCHANGED <<bconn, bsizes, btype, res>>
    /\ UNCHANGED <<tileIn, tiler, reorder, M, tiles, tile_i, tile_j, coords,
                   ptsPerPlane, conn, sizes, old2NewPoint, notTile>>

\* Lines 652-725 for nz >= 1: the boundary quads of a 3D mesh.
MakeBoundary3D ==
    /\ t_pc = "boundary"
    /\ nz >= 1
    /\ LET flgs == BoundaryFlags(options)
           faces == IterateBoundary3D(tiler, tiles, nx, ny, nz, ptsPerPlane,
                                      flgs)
           wild == WildSides(tiler, flgs) # {}
       IN  /\ flags' = flgs
           /\ outside' = wild
           /\ \/ /\ bconn' = FaceConn(faces, reorder, old2NewPoint)
                 /\ bsizes' = FaceSizes(faces)
                 /\ btype' = FaceTypes(faces)
                 /\ res' = [res EXCEPT
                        !.boundary = IF faces # <<>> THEN {"quad"} ELSE {}]
                 /\ t_pc' = "done"
              \/ /\ wild
                 /\ t_pc' = "fault"
                 /\ UNCHANGED <<bconn, bsizes, btype, res>>
    /\ UNCHANGED <<tileIn, tiler, reorder, M, tiles, tile_i, tile_j, coords,
                   ptsPerPlane, conn, sizes, old2NewPoint, notTile>>

\* ------------------------------------------------------------- point merge
\* point_merge of pointmerge.hpp (specification SpecMerge). A coordinate is
\* held as a whole number of units of 1/Unit, Unit a power of two: such values
\* are doubles, their products with a scale of the table and the quotients of
\* keys by it are exact, and the keys stay far inside fp_type (int64).
\* A Node pointer is a set: empty for nullptr, else holding the array.
decimal_places == 4

lookup == <<1, 2 * 2^4, 2 * 2^7, 2 * 2^10, 2 * 2^14, 2 * 2^17, 2 * 2^20>>

\* point_merge::determine_scale: the argument is not looked at.
DetermineScale(tol) ==
    IF decimal_places < Len(lookup) THEN At(lookup, decimal_places)
    ELSE At(lookup, 6)

Unit == 2 * At(lookup, 6)

\* std::round of n/d, d > 0: to the nearest whole number, halves away from 0.
Round(n, d) ==
    IF n >= 0 THEN (2 * n + d) \div (2 * d)
    ELSE 0 - ((2 * (0 - n) + d) \div (2 * d))

\* static_cast<fp_type>(std::round(v * scale))
Quantize(v, s) == Round(v * s, Unit)

\* point_merge::insert; both switches end in the Cartesian case.
Insert(records, dom_id, pid, system, xv, yv, zv, s) ==
    LET key == <<Quantize(xv, s), Quantize(yv, s), Quantize(zv, s)>>
        r == IF key \in DOMAIN records THEN records[key]
             ELSE [orig_domains |-> <<>>, orig_ids |-> <<>>]
    IN  [k \in DOMAIN records \cup {key} |->
            IF k = key
            THEN [orig_domains |-> Append(r.orig_domains, dom_id),
                  orig_ids |-> Append(r.orig_ids, pid)]
            ELSE records[k]]

\* The loops of iterate_coordinates, from point i on; N is counted on xarray.
RECURSIVE InsertLoop(_, _, _, _, _, _, _, _)
InsertLoop(records, domain_id, cs, xarray, yarray, zarray, i, s) ==
    IF i >= Len(xarray) THEN records
    ELSE InsertLoop(
             Insert(records, domain_id, i, cs,
                    At(xarray, i), At(yarray, i), At(zarray, i), s),
             domain_id, cs, xarray, yarray, zarray, i + 1, s)

\* point_merge::iterate_coordinates: 3D, 2D, 1D, or nothing to insert.
IterateCoordinates(records, domain_id, cs, xnode, ynode, znode, s) ==
    IF xnode # {} /\ ynode # {} /\ znode # {}
    THEN InsertLoop(records, domain_id, cs,
                    Value(xnode), Value(ynode), Value(znode), 0, s)
    ELSE IF xnode # {} /\ ynode # {}
    THEN InsertLoop(records, domain_id, cs, Value(xnode), Value(ynode),
                    Fill(Len(Value(xnode)), 0), 0, s)
    ELSE IF xnode # {}
    THEN InsertLoop(records, domain_id, cs, Value(xnode),
                    Fill(Len(Value(xnode)), 0),
                    Fill(Len(Value(xnode)), 0), 0, s)
    ELSE records

\* Node::fetch_ptr
FetchPtr(values, name) ==
    IF name \in DOMAIN values THEN {values[name]} ELSE {}

\* The nodes execute hands to iterate_coordinates for a coordinate set, the
\* system it takes the set for, and whether it skips the set.
FetchNodes(values) ==
    IF FetchPtr(values, "x") # {}
    THEN [cs |-> "cartesian", skip |-> FALSE,
          xnode |-> FetchPtr(values, "x"),
          ynode |-> FetchPtr(values, "y"),
          znode |-> FetchPtr(values, "z")]
    ELSE IF FetchPtr(values, "r") # {}
    THEN IF FetchPtr(values, "z") # {}
         THEN [cs |-> "cylindrical", skip |-> FALSE,
               xnode |-> FetchPtr(values, "r"),
               ynode |-> FetchPtr(values, "z"),
               znode |-> {}]
         ELSE IF FetchPtr(values, "theta") # {}
         THEN [cs |-> "spherical", skip |-> FALSE,
               xnode |-> FetchPtr(values, "r"),
               ynode |-> FetchPtr(values, "theta"),
               znode |-> FetchPtr(values, "phi")]
         ELSE [cs |-> "cartesian", skip |-> TRUE,
               xnode |-> FetchPtr(values, "r"), ynode |-> {}, znode |-> {}]
    ELSE [cs |-> "cartesian", skip |-> FALSE,
          xnode |-> {}, ynode |-> {}, znode |-> {}]

\* The order of std::tuple keys in the std::map.
TupLess(a, b) ==
    \/ a[1] < b[1]
    \/ a[1] = b[1] /\ a[2] < b[2]
    \/ a[1] = b[1] /\ a[2] = b[2] /\ a[3] < b[3]

\* The keys of a map in iteration order.
RECURSIVE MapOrder(_)
MapOrder(keys) ==
    IF keys = {} THEN <<>>
    ELSE LET first == CHOOSE k \in keys :
                          \A o \in keys \ {k} : TupLess(k, o)
         IN  <<first>> \o MapOrder(keys \ {first})

\* key / scale in whole numbers, converted afterwards.
UnquantizeWhole(key, s) ==
    IF key >= 0 THEN (key \div s) * Unit ELSE 0 - (((0 - key) \div s) * Unit)

\* (double)key / (double)scale
Unquantize(key, s) == (key * Unit) \div s

\* The coordinate values drawn: half a key step below zero, half a step and a
\* whole step above it for the first axis; zero and half a step for the rest.
Half == Unit \div (2 * At(lookup, decimal_places))

FirstValues == {0 - Half, Half, 2 * Half}

OtherValues == {0, Half}

ValuesOf(name) == IF name \in {"x", "r"} THEN FirstValues ELSE OtherValues

\* The `values` of the coordinate sets with these axis names and n points.
Arrays(names, n) ==
    {v \in [names -> [1 .. n -> FirstValues \cup OtherValues]] :
        \A name \in names : Range(v[name]) \subseteq ValuesOf(name)}

\* The lists of coordinate sets drawn for a second call on the same merger:
\* one set of one point on the x axis.
SecondInputs == {<<values>> : values \in Arrays({"x"}, 1)}

\* ---- the steps of execute
\* Lines 99-103.
ExecuteBegin ==
    /\ m_pc = "execute"
    /\ scale' = DetermineScale(tolerance)
    /\ out_system' = "cartesian"
    /\ set_i' = 0
    /\ m_pc' = "coordsets"
    /\ UNCHANGED <<coordsets, tolerance, point_records, output, call,
                   first_call, notMerge>>

\* Lines 104-135: a set holding r but neither z nor theta is passed over.
SkipCoordset ==
    /\ m_pc = "coordsets"
    /\ set_i < Len(coordsets)
    /\ FetchNodes(At(coordsets, set_i)).skip
    /\ set_i' = set_i + 1
    /\ UNCHANGED <<m_pc, coordsets, tolerance, scale, out_system,
                   point_records, output, call, first_call, notMerge>>

\* Lines 104-138: one turn of the loop over the coordinate sets.
IterateCoordset ==
    /\ m_pc = "coordsets"
    /\ set_i < Len(coordsets)
    /\ LET nodes == FetchNodes(At(coordsets, set_i))
       IN  /\ ~nodes.skip
           /\ point_records' =
                  IterateCoordinates(point_records, set_i, nodes.cs,
                      nodes.xnode, nodes.ynode, nodes.znode, scale)
    /\ set_i' = set_i + 1
    /\ UNCHANGED <<m_pc, coordsets, tolerance, scale, out_system, output,
                   call, first_call, notMerge>>

\* Lines 140-169: the output coordinate set, in map order.
EmitOutput ==
    /\ m_pc = "coordsets"
    /\ set_i >= Len(coordsets)
    /\ LET order == MapOrder(DOMAIN point_records)
       IN  output' = [x |-> [p \in DOMAIN order |->
                                Unquantize(order[p][1], scale)],
                      y |-> [p \in DOMAIN order |->
                                Unquantize(order[p][2], scale)],
                      z |-> [p \in DOMAIN order |->
                                Unquantize(order[p][3], scale)]]
    /\ m_pc' = "done"
    /\ UNCHANGED <<coordsets, tolerance, scale, out_system, set_i,
                   point_records, call, first_call, notMerge>>

\* ---- what a caller may do once a first execute has returned
\* The state a call of execute ended in.
Ended ==
    [coordsets |-> coordsets, output |-> output,
     point_records |-> point_records]

\* A new point_merge is constructed (no records, scale not yet set) and its
\* execute is called on the coordinate set just output, same tolerance.
ExecuteOnOutput ==
    /\ m_pc = "done"
    /\ call = "first"
    /\ call' = "remerge"
    /\ first_call' = Ended
    /\ coordsets' = <<[x |-> output.x, y |-> output.y, z |-> output.z]>>
    /\ point_records' = <<>>
    /\ scale' = 0
    /\ m_pc' = "execute"
    /\ UNCHANGED <<tolerance, out_system, set_i, output, notMerge>>

\* execute is called a second time on the same point_merge, on other
\* coordinate sets: the members keep what the first call left in them.
ExecuteAgain ==
    /\ m_pc = "done"
    /\ call = "first"
    /\ call' = "again"
    /\ first_call' = Ended
    /\ \E again \in SecondInputs : coordsets' = again
    /\ m_pc' = "execute"
    /\ UNCHANGED <<tolerance, scale, out_system, set_i, point_records, output,
                   notMerge>>

\* ------------------------------------------------------------ initial state
\* A chunk free to move: destination_rank = destination_domain = -1.
FreeInfos ==
    [num_elements : 0 .. MaxElems, destination_rank : {-1},
     destination_domain : {-1}]

\* A pinned chunk; its num_elements is gathered and never read on the
\* pinned and mixed branches, so one value is drawn.
PinnedInfos(sz) ==
    [num_elements : {1}, destination_rank : 0 .. (sz - 1),
     destination_domain : 0 .. MaxDomain]

\* The state/cycle and state/time the i-th chunk of rank r comes with: the
\* chunks of a fleet show every combination of present and absent entries.
InputCycle(r, i) == IF (r + i) % 2 = 0 THEN {i} ELSE {}

InputTime(r, i) == IF i % 2 = 1 THEN {r + i} ELSE {}

\* The i-th chunk (from 1) of rank r, built from its gathered description.
\* The mesh carries an identity, the state/domain_id it comes with and its
\* state/cycle and state/time when it has them.
MakeChunk(info, r, i) ==
    [mesh |-> [id |-> <<r, i>>, num_elements |-> info.num_elements,
               cycle |-> InputCycle(r, i), time |-> InputTime(r, i),
               domain_id |-> r],
     owned |-> FALSE,
     destination_rank |-> info.destination_rank,
     destination_domain |-> info.destination_domain]

\* Lengths cnt[0 .. sz-1] split the flat sequence all among the ranks.
Split(all, cnt, sz) ==
    [r \in 0 .. (sz - 1) |->
        LET before == SumSeq([q \in 1 .. r |-> cnt[q - 1]])
        IN  [i \in 1 .. cnt[r] |-> <<all[before + i], r, i>>]]

SelIdle(sz) ==
    /\ selections = [r \in 0 .. (sz - 1) |-> <<>>]
    /\ sel_pc = [r \in 0 .. (sz - 1) |-> "idle"]
    /\ largest_selection = [r \in 0 .. (sz - 1) |-> [value |-> 0, rank |-> r]]
    /\ sel_rank = [r \in 0 .. (sz - 1) |-> -1]
    /\ sel_index = [r \in 0 .. (sz - 1) |-> -1]

PartStart(sz, tg, ch, where) ==
    /\ target = tg
    /\ chunks = ch
    /\ pc = [r \in 0 .. (sz - 1) |-> where]
    /\ offsets = [r \in 0 .. (sz - 1) |-> <<>>]
    /\ dest_rank = [r \in 0 .. (sz - 1) |-> <<>>]
    /\ dest_domain = [r \in 0 .. (sz - 1) |-> <<>>]
    /\ placements = [r \in 0 .. (sz - 1) |-> <<>>]
    /\ warnings = [r \in 0 .. (sz - 1) |-> 0]
    /\ send_i = [r \in 0 .. (sz - 1) |-> 0]
    /\ recv_i = [r \in 0 .. (sz - 1) |-> 0]
    /\ posted = [r \in 0 .. (sz - 1) |-> {}]
    /\ msgs = {}
    /\ sendLog = [r \in 0 .. (sz - 1) |-> <<>>]
    /\ recvLog = [r \in 0 .. (sz - 1) |-> <<>>]
    /\ chunks_to_assemble = [r \in 0 .. (sz - 1) |-> <<>>]
    /\ chunks_to_assemble_domains = [r \in 0 .. (sz - 1) |-> <<>>]

\* The tiler is not running.
TileIdle ==
    /\ t_pc = "idle"
    /\ nx = 1
    /\ ny = 1
    /\ nz = 0
    /\ options = [tile |-> {}, reorder |-> {}, domain |-> {}, domains |-> {}]
    /\ tiler = DefaultPattern
    /\ reorder = TRUE
    /\ M = << <<1, 0, 0>>, <<0, 1, 0>>, <<0, 0, 1>> >>
    /\ tiles = <<>>
    /\ tile_i = 0
    /\ tile_j = 0
    /\ coords = [x |-> <<>>, y |-> <<>>, z |-> <<>>]
    /\ ptsPerPlane = 0
    /\ conn = <<>>
    /\ sizes = <<>>
    /\ old2NewPoint = <<>>
    /\ flags = <<>>
    /\ bconn = <<>>
    /\ bsizes = <<>>
    /\ btype = <<>>
    /\ res = [shape |-> "", boundary |-> {}]
    /\ outside = FALSE

\* No call of execute has ended yet.
NoCall ==
    [coordsets |-> <<>>, output |-> [x |-> <<>>, y |-> <<>>, z |-> <<>>],
     point_records |-> <<>>]

\* No point_merge is at work.
MergeIdle ==
    /\ m_pc = "idle"
    /\ coordsets = <<>>
    /\ tolerance = 0
    /\ scale = 0
    /\ out_system = "cartesian"
    /\ set_i = 0
    /\ point_records = <<>>
    /\ output = [x |-> <<>>, y |-> <<>>, z |-> <<>>]
    /\ call = "first"
    /\ first_call = NoCall

\* Every rank is about to call map_chunks with its chunks.
Init ==
    \E sz \in 1 .. MaxSize : \E tg \in 1 .. MaxTarget :
    \E cnt \in [0 .. (sz - 1) -> 0 .. MaxChunks] :
        LET n == SumSeq([q \in 1 .. sz |-> cnt[q - 1]])
        IN  /\ n <= MaxChunks
            /\ \E all \in [1 .. n -> FreeInfos \cup PinnedInfos(sz)] :
                 /\ size = sz
                 /\ PartStart(sz, tg,
                        [r \in 0 .. (sz - 1) |->
                            [i \in 1 .. cnt[r] |->
                                MakeChunk(Split(all, cnt, sz)[r][i][1], r, i)]],
                        "map")
                 /\ SelIdle(sz)
                 /\ TileIdle
                 /\ MergeIdle

Next ==
    \/ \E r \in Ranks : MapPinned(r)
    \/ \E r \in Ranks : MapFree(r)
    \/ \E r \in Ranks : MapMixed(r)
    \/ \E r \in Ranks : Send(r)
    \/ \E r \in Ranks : Wrap(r)
    \/ \E r \in Ranks : PostRecv(r)
    \/ \E r \in Ranks : CompleteRecv(r)
    \/ \E r \in Ranks : Finish(r)

Spec == Init /\ [][Next]_vars

\* The same program over sends that block until the receive is posted.
NextSync ==
    \/ \E r \in Ranks : MapPinned(r)
    \/ \E r \in Ranks : MapFree(r)
    \/ \E r \in Ranks : MapMixed(r)
    \/ \E r \in Ranks : SendSync(r)
    \/ \E r \in Ranks : Wrap(r)
    \/ \E r \in Ranks : PostRecv(r)
    \/ \E r \in Ranks : CompleteRecv(r)
    \/ \E r \in Ranks : Finish(r)

SpecSync == Init /\ [][NextSync]_vars

\* Every rank is about to call get_largest_selection with its selections.
InitSel ==
    \E sz \in 1 .. MaxSize :
    \E cnt \in [0 .. (sz - 1) -> 0 .. MaxSelections] :
        LET n == SumSeq([q \in 1 .. sz |-> cnt[q - 1]])
        IN  /\ n <= MaxSelections
            /\ \E all \in [1 .. n -> 0 .. MaxLength] :
                 /\ size = sz
                 /\ selections = [r \in 0 .. (sz - 1) |->
                        [i \in 1 .. cnt[r] |-> Split(all, cnt, sz)[r][i][1]]]
                 /\ sel_pc = [r \in 0 .. (sz - 1) |-> "local"]
                 /\ largest_selection =
                        [r \in 0 .. (sz - 1) |-> [value |-> 0, rank |-> r]]
                 /\ sel_rank = [r \in 0 .. (sz - 1) |-> -1]
                 /\ sel_index = [r \in 0 .. (sz - 1) |-> -1]
                 /\ PartStart(sz, 1, [r \in 0 .. (sz - 1) |-> <<>>], "idle")
                 /\ TileIdle
                 /\ MergeIdle

NextSel ==
    \/ \E r \in Ranks : SelLocal(r)
    \/ \E r \in Ranks : SelReduce(r)

SpecSel == InitSel /\ [][NextSel]_vars

\* The `tile` options drawn: a unit square of 4 points and one quad, with
\* variations of its arrays. Some keep the pattern sound, some break |x| = |y|,
\* |quads| % 4 = 0 or |left| = |right|, some repeat an index or turn the top
\* edge around. Every index stays inside the arrays it is used with, so that
\* no variation makes generate read or write a point outside a vector.
FullEdgePatterns ==
    [x : {<<0, 1, 0, 1>>},
     y : {<<0, 0, 1, 1>>, <<0, 0, 1, 1, 1>>},
     quads : {<<0, 1, 3, 2>>, <<0, 1, 3, 2, 0>>},
     left : {<<0, 2>>, <<0, 0>>},
     right : {<<1, 3>>, <<1, 3, 3>>},
     bottom : {<<0, 1>>},
     top : {<<2, 3>>, <<3, 2>>}]

\* The same square with one edge array cut short: an edge of one point and
\* an edge of no point, on a side walked backward (left) and on a side walked
\* forward (bottom). These are the edges setPointIds writes to, so that the
\* ids it copies from the opposite edge are never fewer than it reads.
ShortEdgePatterns ==
    LET square == [x |-> <<0, 1, 0, 1>>, y |-> <<0, 0, 1, 1>>,
                   quads |-> <<0, 1, 3, 2>>, left |-> <<0, 2>>,
                   right |-> <<1, 3>>, bottom |-> <<0, 1>>, top |-> <<2, 3>>]
    IN  {[square EXCEPT !.left = <<0>>],
         [square EXCEPT !.bottom = <<0>>],
         [square EXCEPT !.left = <<>>],
         [square EXCEPT !.bottom = <<>>]}

TilePatterns == FullEdgePatterns \cup ShortEdgePatterns

\* The `reorder` options drawn: absent, or an integer.
ReorderOptions == {{}} \cup {{v} : v \in (0 - MaxReorder) .. MaxReorder}

\* The `domain` and `domains` options drawn: both absent; a brick of a
\* tiling of at most MaxDomains bricks; 2 components each; `domain` alone.
DomainOptions ==
    LET counts == {D \in (1 .. MaxDomains) \X (1 .. MaxDomains)
                             \X (1 .. MaxDomains) :
                      D[1] * D[2] * D[3] <= MaxDomains}
        bricks(D) == {d \in (0 .. (MaxDomains - 1)) \X (0 .. (MaxDomains - 1))
                                \X (0 .. (MaxDomains - 1)) :
                         d[1] < D[1] /\ d[2] < D[2] /\ d[3] < D[3]}
    IN  {[domain |-> {}, domains |-> {}],
         [domain |-> {<<0, 0>>}, domains |-> {<<MaxDomains, 1>>}],
         [domain |-> {<<0, 0, 0>>}, domains |-> {}]}
        \cup UNION {{[domain |-> {d}, domains |-> {D}] : d \in bricks(D)} :
                       D \in counts}

TileStart(n_x, n_y, n_z, opts) ==
    /\ t_pc = "options"
    /\ nx = n_x
    /\ ny = n_y
    /\ nz = n_z
    /\ options = opts
    /\ tiler = DefaultPattern
    /\ reorder = TRUE
    /\ M = << <<1, 0, 0>>, <<0, 1, 0>>, <<0, 0, 1>> >>
    /\ tiles = <<>>
    /\ tile_i = 0
    /\ tile_j = 0
    /\ coords = [x |-> <<>>, y |-> <<>>, z |-> <<>>]
    /\ ptsPerPlane = 0
    /\ conn = <<>>
    /\ sizes = <<>>
    /\ old2NewPoint = <<>>
    /\ flags = <<>>
    /\ bconn = <<>>
    /\ bsizes = <<>>
    /\ btype = <<>>
    /\ res = [shape |-> "", boundary |-> {}]
    /\ outside = FALSE

\* A Tiler has been constructed (default pattern) and generate is called:
\* with the default pattern and any of the options, or with a `tile` option
\* and no `domain`.
InitTile ==
    \E n_x \in 1 .. MaxTiles : \E n_y \in 1 .. MaxTiles :
    \E n_z \in 0 .. MaxNz : \E ro \in ReorderOptions :
        /\ n_x * n_y <= MaxTiles
        /\ \/ \E dom \in DomainOptions :
                 TileStart(n_x, n_y, n_z,
                     [tile |-> {}, reorder |-> ro,
                      domain |-> dom.domain, domains |-> dom.domains])
           \/ \E pat \in TilePatterns :
                 TileStart(n_x, n_y, n_z,
                     [tile |-> {pat}, reorder |-> ro,
                      domain |-> {}, domains |-> {}])
        /\ size = 1
        /\ PartStart(1, 1, [r \in {0} |-> <<>>], "idle")
        /\ SelIdle(1)
        /\ MergeIdle

NextTile ==
    \/ ProcessOptions
    \/ MakeTile
    \/ AddQuads
    \/ AddPlanes
    \/ Reorder
    \/ KeepOrder
    \/ MakeBoundary2D
    \/ MakeBoundary3D

SpecTile == InitTile /\ [][NextTile]_vars

\* The axis names drawn for Cartesian sets, and for the others.
CartesianNames == {{"x"}, {"x", "y"}, {"x", "y", "z"}, {"x", "z"}}

OtherNames == {{"y"}, {"r"}, {"r", "z"}, {"r", "theta", "phi"}}

\* The coordinate sets of n points drawn.
CoordSets(n) ==
    UNION {Arrays(names, n) : names \in CartesianNames}
    \cup (IF n <= MaxOtherPoints
          THEN UNION {Arrays(names, n) : names \in OtherNames} ELSE {})

NPoints(values) == Len(values[CHOOSE name \in DOMAIN values : TRUE])

\* A point_merge has been constructed and execute is called on a list of
\* coordinate sets with a tolerance of 10^-tolerance. The members scale and
\* out_system hold no value yet; execute sets both before it reads them.
InitMerge ==
    \E ns \in 0 .. MaxSets :
    \E cs \in [1 .. ns -> UNION {CoordSets(n) : n \in 1 .. MaxPoints}] :
    \E tol \in 0 .. MaxPlaces :
        /\ SumSeq([k \in 1 .. ns |-> NPoints(cs[k])]) <= MaxTotalPoints
        /\ coordsets = cs
        /\ tolerance = tol
        /\ m_pc = "execute"
        /\ scale = 0
        /\ out_system = "cartesian"
        /\ set_i = 0
        /\ point_records = <<>>
        /\ output = [x |-> <<>>, y |-> <<>>, z |-> <<>>]
        /\ call = "first"
        /\ first_call = NoCall
        /\ size = 1
        /\ PartStart(1, 1, [r \in {0} |-> <<>>], "idle")
        /\ SelIdle(1)
        /\ TileIdle

NextMerge ==
    \/ ExecuteBegin
    \/ SkipCoordset
    \/ IterateCoordset
    \/ EmitOutput
    \/ ExecuteOnOutput
    \/ ExecuteAgain

SpecMerge == InitMerge /\ [][NextMerge]_vars

\* ------------------------------------------------- what the claims refer to
\* The number of chunks on the ranks below r, and in the fleet.
Before(r) == SumSeq([q \in 1 .. r |-> Len(chunks[q - 1])])

NChunks == Before(size)

Globals == 0 .. (NChunks - 1)

\* The rank whose slice holds global chunk g, and the chunk itself.
SourceOf(g) ==
    CHOOSE r \in Ranks : Before(r) <= g /\ g < Before(r) + Len(chunks[r])

InputOf(g) == chunks[SourceOf(g)][g - Before(SourceOf(g)) + 1]

AllPinned == \A g \in Globals : InputOf(g).destination_domain >= 0

AllFree == NChunks > 0 /\ \A g \in Globals : InputOf(g).destination_domain < 0

Mixed ==
    /\ \E g \in Globals : InputOf(g).destination_domain >= 0
    /\ \E g \in Globals : InputOf(g).destination_domain < 0

\* map_chunks has returned on rank r.
Returned(r) == pc[r] \in {"comm", "done"}

AllDone == \A r \in Ranks : pc[r] = "done"

\* The global chunks that rank r must send, and those it must receive.
Outgoing(r) ==
    {g \in Globals : SourceOf(g) = r /\ At(dest_rank[r], g) # r}

Incoming(r) ==
    {g \in Globals : SourceOf(g) # r /\ At(dest_rank[r], g) = r}

MaxOf(s) == CHOOSE x \in Range(s) : \A y \in Range(s) : y <= x

MinOf(s) == CHOOSE x \in Range(s) : \A y \in Range(s) : x <= y

\* ------------------------------------------------------------------ claims
\* C1: in communicate_chunks every global chunk g whose destination rank is
\* not its source rank is sent exactly once, by its source rank to
\* dest_rank[g] with tag 12000+g, and received by exactly one receive, posted
\* on dest_rank[g] for that source and tag; tags are not reused, and no send
\* or receive stays without its counterpart.
C1_SendRecvMatch ==
    /\ \A r \in Ranks : Returned(r) =>
          /\ \A k \in DOMAIN sendLog[r] :
                \E g \in Outgoing(r) :
                    sendLog[r][k] =
                        [dest |-> At(dest_rank[r], g), tag |-> 12000 + g]
          /\ \A k \in DOMAIN recvLog[r] :
                \E g \in Incoming(r) :
                    recvLog[r][k] = [src |-> SourceOf(g), tag |-> 12000 + g]
          /\ \A k1, k2 \in DOMAIN recvLog[r] :
                k1 # k2 => recvLog[r][k1].tag # recvLog[r][k2].tag
          /\ pc[r] = "done" =>
                /\ Len(sendLog[r]) = Cardinality(Outgoing(r))
                /\ Len(recvLog[r]) = Cardinality(Incoming(r))
                /\ posted[r] = {}
    /\ \A r1, r2 \in Ranks :
          \A k1 \in DOMAIN sendLog[r1] : \A k2 \in DOMAIN sendLog[r2] :
              <<r1, k1>> # <<r2, k2>> =>
                  sendLog[r1][k1].tag # sendLog[r2][k2].tag
    /\ \A r \in Ranks : \A k \in DOMAIN sendLog[r] :
          LET d == sendLog[r][k].dest
          IN  /\ d \in Ranks
              /\ pc[d] = "done" =>
                    \E j \in DOMAIN recvLog[d] :
                        recvLog[d][j] = [src |-> r, tag |-> sendLog[r][k].tag]
    /\ \A r \in Ranks : \A k \in DOMAIN recvLog[r] :
          LET q == recvLog[r][k].src
          IN  /\ q \in Ranks
              /\ pc[q] = "done" =>
                    \E j \in DOMAIN sendLog[q] :
                        sendLog[q][j] = [dest |-> r, tag |-> recvLog[r][k].tag]
    /\ AllDone => msgs = {}

\* C1 witness: two ranks have sent a chunk to each other and both are done.
C1_Witness ==
    /\ AllDone
    /\ size = 2
    /\ Len(sendLog[0]) >= 1
    /\ Len(sendLog[1]) >= 1
    /\ Len(recvLog[0]) >= 1
    /\ Len(recvLog[1]) >= 1

\* C2: with every chunk free, after each placement of map_chunks the largest
\* and the smallest of target_element_counts differ by at most the
\* num_elements of the largest chunk.
C2_Balance ==
    \A r \in Ranks : (Returned(r) /\ AllFree) =>
        /\ Len(placements[r]) = NChunks
        /\ \A k \in DOMAIN placements[r] :
              /\ Len(placements[r][k]) = target
              /\ MaxOf(placements[r][k]) - MinOf(placements[r][k])
                    <= MaxOf([g1 \in 1 .. NChunks |->
                                 InputOf(g1 - 1).mesh.num_elements])

\* C2 witness: three free chunks placed in two domains that end unequal by
\* exactly the size of the largest chunk.
C2_Witness ==
    /\ AllFree
    /\ NChunks = 3
    /\ target = 2
    /\ Returned(0)
    /\ MaxOf(placements[0][3]) - MinOf(placements[0][3]) = 2
    /\ MinOf(placements[0][3]) > 0

\* C3: when every chunk is pinned, map_chunks returns on every rank the
\* destination_rank and destination_domain each global chunk was given.
C3_PinnedPassThrough ==
    \A r \in Ranks : (Returned(r) /\ AllPinned) =>
        /\ Len(dest_rank[r]) = NChunks
        /\ Len(dest_domain[r]) = NChunks
        /\ \A g \in Globals :
              /\ At(dest_rank[r], g) = InputOf(g).destination_rank
              /\ At(dest_domain[r], g) = InputOf(g).destination_domain

\* C3 witness: pinned chunks on two ranks with different destinations, the
\* number of distinct domains differing from target, returned on both ranks.
C3_Witness ==
    /\ size = 2
    /\ NChunks = 3
    /\ AllPinned
    /\ Len(chunks[0]) = 1
    /\ Returned(0) /\ Returned(1)
    /\ dest_rank[1] = <<1, 0, 1>>
    /\ dest_domain[1] = <<0, 1, 1>>
    /\ target = 3

\* C4: in a fleet that mixes pinned and free chunks map_chunks fails on every
\* rank that runs it and returns on none; and never does one rank fail while
\* another returns.
C4_MixedFailsEverywhere ==
    /\ Mixed => \A r \in Ranks :
          /\ pc[r] \in {"map", "error"}
          /\ dest_rank[r] = <<>>
          /\ dest_domain[r] = <<>>
          /\ offsets[r] = <<>>
    /\ \A r1, r2 \in Ranks : ~(pc[r1] = "error" /\ Returned(r2))
    /\ \A r \in Ranks : pc[r] = "error" => Mixed

\* C4 witness: both ranks have failed, one holding only pinned chunks and the
\* other none or only free ones.
C4_Witness ==
    /\ size = 2
    /\ pc[0] = "error"
    /\ pc[1] = "error"
    /\ Len(chunks[0]) = 2
    /\ \A i \in DOMAIN chunks[0] : chunks[0][i].destination_domain >= 0
    /\ \A i \in DOMAIN chunks[1] : chunks[1][i].destination_domain < 0

\* C5: in free assignment the chunks are placed in global index order, chunk
\* g in the domain whose running count is least just before, the lowest such
\* domain on ties; dest_domain[g] is that domain and its count grows by the
\* chunk's num_elements.
C5_LeastLoadedLowestIndex ==
    \A r \in Ranks : (Returned(r) /\ AllFree) =>
        /\ Len(dest_domain[r]) = NChunks
        /\ Len(placements[r]) = NChunks
        /\ \A g \in Globals :
              LET before == IF g = 0 THEN [t \in 1 .. target |-> 0]
                            ELSE placements[r][g]
                  after == placements[r][g + 1]
                  t == At(dest_domain[r], g)
              IN  /\ t \in 0 .. (target - 1)
                  /\ \A u \in 0 .. (target - 1) : At(before, t) <= At(before, u)
                  /\ \A u \in 0 .. (t - 1) : At(before, u) > At(before, t)
                  /\ after = [before EXCEPT
                                 ![t + 1] = @ + InputOf(g).mesh.num_elements]

\* C5 witness: the third chunk meets two equally loaded, non-empty domains
\* and goes to domain 0.
C5_Witness ==
    /\ AllFree
    /\ NChunks = 3
    /\ target = 2
    /\ Returned(0)
    /\ placements[0][2] = <<1, 1>>
    /\ dest_domain[0] = <<0, 1, 0>>
    /\ placements[0][3] = <<3, 1>>

\* The number of final domains rank q owns when target domains are dealt
\* one at a time to the first min(size, target) ranks in turn.
Share(q) ==
    LET m == Min(size, target)
    IN  IF q < m THEN (target - q + m - 1) \div m ELSE 0

\* The owner of domain d when every rank owns a block of Share(q) consecutive
\* domains, rank 0 the lowest.
BlockOwner(d) ==
    CHOOSE q \in Ranks :
        LET lo == SumSeq([p1 \in 1 .. q |-> Share(p1 - 1)])
        IN  lo <= d /\ d < lo + Share(q)

\* C6 as claimed: in free assignment a chunk in domain d gets dest_rank
\* d mod min(size, target).
C6_RoundRobinOwner ==
    \A r \in Ranks : (Returned(r) /\ AllFree) =>
        \A g \in Globals :
            At(dest_rank[r], g) = At(dest_domain[r], g) % Min(size, target)

\* C6 as amended: in free assignment the target domains are dealt to the
\* first min(size, target) ranks in consecutive blocks, rank q owning
\* Share(q) domains and rank 0 the lowest ones; a chunk in domain d gets the
\* dest_rank that owns d, which is d mod min(size, target) when
\* target <= size.
C6_BlockOwner ==
    \A r \in Ranks : (Returned(r) /\ AllFree) =>
        /\ Len(dest_rank[r]) = NChunks
        /\ \A g \in Globals :
              /\ At(dest_rank[r], g) = BlockOwner(At(dest_domain[r], g))
              /\ target <= size =>
                    At(dest_rank[r], g) =
                        At(dest_domain[r], g) % Min(size, target)

\* C6 witness: two ranks, three domains; the chunk of domain 1 stays with
\* rank 0 and the chunk of domain 2 goes to rank 1.
C6_Witness ==
    /\ AllFree
    /\ size = 2
    /\ target = 3
    /\ Returned(1)
    /\ dest_domain[1] = <<0, 1, 2>>
    /\ dest_rank[1] = <<0, 0, 1>>

\* The greatest selection length of the fleet, and the lowest rank with a
\* selection that long.
SelLengths == UNION {Range(selections[r]) : r \in Ranks}

GlobalMax == CHOOSE x \in SelLengths : \A y \in SelLengths : y <= x

Winner ==
    CHOOSE r \in Ranks :
        /\ GlobalMax \in Range(selections[r])
        /\ \A q \in 0 .. (r - 1) : GlobalMax \notin Range(selections[q])

\* C7: when some selection has a positive length, get_largest_selection
\* gives every rank the same sel_rank, the lowest rank holding a selection of
\* the greatest length; there sel_index is the first local index of that
\* length, and on every other rank it is -1.
C7_LargestSelection ==
    (\E x \in SelLengths : x > 0) =>
        \A r \in Ranks : sel_pc[r] = "done" =>
            /\ sel_rank[r] = Winner
            /\ r # Winner => sel_index[r] = -1
            /\ r = Winner =>
                  /\ sel_index[r] \in 0 .. (Len(selections[r]) - 1)
                  /\ At(selections[r], sel_index[r]) = GlobalMax
                  /\ \A i \in 0 .. (sel_index[r] - 1) :
                        At(selections[r], i) # GlobalMax

\* C7 witness: both ranks hold a selection of the greatest length, rank 0 as
\* its second selection.
C7_Witness ==
    /\ size = 2
    /\ selections[0] = <<1, 2>>
    /\ selections[1] = <<2>>
    /\ sel_pc[0] = "done" /\ sel_pc[1] = "done"
    /\ sel_rank[0] = 0 /\ sel_rank[1] = 0
    /\ sel_index[0] = 1 /\ sel_index[1] = -1

\* C8: map_chunks returns the same offsets, dest_rank and dest_domain on
\* every rank; offsets[r] is the number of chunks on the ranks below r, and
\* dest_rank and dest_domain have one entry per global chunk, the entry
\* offsets[r]+i being that of the i-th local chunk of rank r.
C8_SameOnEveryRank ==
    /\ \A r1, r2 \in Ranks : (Returned(r1) /\ Returned(r2)) =>
          /\ offsets[r1] = offsets[r2]
          /\ dest_rank[r1] = dest_rank[r2]
          /\ dest_domain[r1] = dest_domain[r2]
    /\ \A r \in Ranks : Returned(r) =>
          /\ Len(offsets[r]) = size
          /\ \A q \in Ranks : At(offsets[r], q) = Before(q)
          /\ Len(dest_rank[r]) = NChunks
          /\ Len(dest_domain[r]) = NChunks
          /\ AllPinned => \A q \in Ranks : \A i \in 0 .. (Len(chunks[q]) - 1) :
                /\ At(dest_rank[r], At(offsets[r], q) + i)
                      = At(chunks[q], i).destination_rank
                /\ At(dest_domain[r], At(offsets[r], q) + i)
                      = At(chunks[q], i).destination_domain

\* C8 witness: two ranks with one and two chunks have both returned.
C8_Witness ==
    /\ size = 2
    /\ Len(chunks[0]) = 2
    /\ Len(chunks[1]) = 1
    /\ Returned(0) /\ Returned(1)
    /\ offsets[1] = <<0, 2>>
    /\ Len(dest_rank[0]) = 3

\* C9: on every rank the k-th assembled chunk is a global chunk g with
\* dest_rank[g] equal to this rank; it is chunk g's mesh with state/domain_id
\* set to g, kept or received; chunks_to_assemble_domains[k] is
\* dest_domain[g]; and g grows with k.
C9_AssembledChunks ==
    \A r \in Ranks :
        /\ Len(chunks_to_assemble_domains[r]) = Len(chunks_to_assemble[r])
        /\ \A k \in DOMAIN chunks_to_assemble[r] :
              LET c == chunks_to_assemble[r][k]
                  g == c.mesh.domain_id
              IN  /\ g \in Globals
                  /\ At(dest_rank[r], g) = r
                  /\ c.mesh.id = InputOf(g).mesh.id
                  /\ c.external = (SourceOf(g) = r)
                  /\ chunks_to_assemble_domains[r][k] = At(dest_domain[r], g)
                  /\ \A j \in 1 .. (k - 1) :
                        chunks_to_assemble[r][j].mesh.domain_id < g

\* C9 witness: rank 1 is done with a received chunk followed by one of its
\* own, neither of which came with the domain_id it has now.
C9_Witness ==
    /\ size = 2
    /\ pc[1] = "done"
    /\ Len(chunks_to_assemble[1]) = 2
    /\ ~chunks_to_assemble[1][1].external
    /\ chunks_to_assemble[1][2].external
    /\ chunks_to_assemble[1][1].mesh.domain_id = 0
    /\ chunks_to_assemble[1][2].mesh.domain_id = 2
    /\ chunks_to_assemble_domains[1] = <<1, 0>>

\* C10: with target 1 and every chunk free, every chunk gets dest_domain 0
\* and dest_rank 0; rank 0 sends nothing; a rank r > 0 sends each of its
\* chunks to rank 0 with tag 12000+g, in order; and rank 0 ends with all
\* chunks.
C10_TargetOne ==
    (target = 1 /\ AllFree) =>
        /\ \A r \in Ranks : Returned(r) =>
              /\ dest_domain[r] = [g1 \in 1 .. NChunks |-> 0]
              /\ dest_rank[r] = [g1 \in 1 .. NChunks |-> 0]
        /\ sendLog[0] = <<>>
        /\ \A r \in Ranks : \A k \in DOMAIN sendLog[r] :
              sendLog[r][k] = [dest |-> 0, tag |-> 12000 + Before(r) + k - 1]
        /\ \A r \in Ranks : (pc[r] = "done" /\ r > 0) =>
              /\ Len(sendLog[r]) = Len(chunks[r])
              /\ chunks_to_assemble[r] = <<>>
        /\ pc[0] = "done" =>
              /\ Len(chunks_to_assemble[0]) = NChunks
              /\ \A g \in Globals :
                    /\ chunks_to_assemble[0][g + 1].mesh.id = InputOf(g).mesh.id
                    /\ chunks_to_assemble_domains[0][g + 1] = 0

\* C10 witness: two ranks with one chunk each and target 1; rank 1 has sent
\* its chunk with tag 12001 and rank 0 holds both chunks.
C10_Witness ==
    /\ size = 2
    /\ target = 1
    /\ AllFree
    /\ Len(chunks[0]) = 1
    /\ Len(chunks[1]) = 1
    /\ chunks[0][1].mesh.num_elements = chunks[1][1].mesh.num_elements
    /\ AllDone
    /\ sendLog[0] = <<>>
    /\ sendLog[1] = <<[dest |-> 0, tag |-> 12001]>>
    /\ Len(chunks_to_assemble[0]) = 2

\* C11: when every chunk is pinned and the number of distinct pinned domain
\* ids differs from target, no rank fails, no rank other than rank 0 emits a
\* warning, and once every rank has returned exactly one warning has been
\* emitted in the whole fleet.
C11_OneWarningFromRank0 ==
    (/\ AllPinned
     /\ NChunks > 0
     /\ Cardinality({InputOf(g).destination_domain : g \in Globals}) # target)
    =>
        /\ \A r \in Ranks : pc[r] # "error"
        /\ \A r \in Ranks : r > 0 => warnings[r] = 0
        /\ (\A r \in Ranks : Returned(r)) =>
               SumSeq([q \in 1 .. size |-> warnings[q - 1]]) = 1

\* ------------------------------------------- what the tiler's claims refer to
\* The point-allocation pass of generate is over.
PassDone ==
    \/ t_pc = "tiles" /\ tile_j >= ny
    \/ t_pc \in {"reorder", "boundary", "done"}

Generated == t_pc = "done"

DefaultTile == options.tile = {}

\* The validation invariants on the edge arrays of a pattern ...
ValidEdges(t) ==
    /\ \A e \in {t.m_left, t.m_right, t.m_bottom, t.m_top} :
          \A k \in DOMAIN e : e[k] \in 0 .. (Len(t.m_xpts) - 1)
    /\ Len(t.m_left) = Len(t.m_right)
    /\ Len(t.m_bottom) = Len(t.m_top)

\* ... and all of them.
Valid(t) ==
    /\ Len(t.m_xpts) = Len(t.m_ypts)
    /\ Len(t.m_quads) % 4 = 0
    /\ \A k \in DOMAIN t.m_quads : t.m_quads[k] \in 0 .. (Len(t.m_xpts) - 1)
    /\ ValidEdges(t)

\* The edge arrays agree at the corners: no index is repeated within left
\* or within bottom, left and bottom share their first index and no other,
\* right starts where bottom ends, top starts where left ends and ends where
\* right ends.
Consistent(t) ==
    /\ \A e \in {t.m_left, t.m_bottom} :
          \A a, b \in DOMAIN e : e[a] = e[b] => a = b
    /\ \A a \in DOMAIN t.m_left : \A b \in DOMAIN t.m_bottom :
          t.m_left[a] = t.m_bottom[b] <=> (a = 1 /\ b = 1)
    /\ t.m_right[1] = t.m_bottom[Len(t.m_bottom)]
    /\ t.m_top[1] = t.m_left[Len(t.m_left)]
    /\ t.m_top[Len(t.m_top)] = t.m_right[Len(t.m_right)]

\* Tiles sharing an edge hold the same ids along it, position by position.
Sharing ==
    \A i \in 0 .. (nx - 1) : \A j \in 0 .. (ny - 1) :
        /\ i + 1 < nx =>
              GetPointIds(At(tiles, j * nx + i), tiler.m_right)
              = GetPointIds(At(tiles, j * nx + i + 1), tiler.m_left)
        /\ j + 1 < ny =>
              GetPointIds(At(tiles, j * nx + i), tiler.m_top)
              = GetPointIds(At(tiles, (j + 1) * nx + i), tiler.m_bottom)

\* The number of 2D points of a brick of a by b default tiles.
PointCount(a, b) ==
    33 * a * b - 5 * (a - 1) * b - 5 * a * (b - 1) + (a - 1) * (b - 1)

CountOf(s, v) == Cardinality({k \in DOMAIN s : s[k] = v})

AllSides == flags = <<TRUE, TRUE, TRUE, TRUE, TRUE, TRUE>>

\* C12 as stated: for any nx, ny >= 1 and any pattern that satisfies the
\* validation invariants, after the point-allocation pass horizontally
\* adjacent tiles agree on the ids of the shared edge (right of the left tile,
\* left of the right tile) and vertically adjacent tiles agree on theirs (top
\* of the lower tile, bottom of the upper tile).
C12_TileSharing ==
    (PassDone /\ Valid(tiler)) => Sharing

\* C12, amended: the same for any pattern whose edge arrays satisfy the
\* validation invariants and agree at the corners.
C12_TileSharingConsistent ==
    (PassDone /\ ValidEdges(tiler) /\ Consistent(tiler)) => Sharing

\* C12 witness: a replacement pattern with consistent edges, 2 by 2 tiles,
\* the mesh generated; the four tiles meet in one point.
C12_Witness ==
    /\ Generated
    /\ ~DefaultTile
    /\ ValidEdges(tiler) /\ Consistent(tiler)
    /\ nx = 2 /\ ny = 2
    /\ At(At(tiles, 0), 3) = At(At(tiles, 3), 0)
    /\ At(At(tiles, 1), 2) = At(At(tiles, 2), 1)
    /\ Len(coords.x) = 9

\* C13: for the default pattern and nz = 0, generate allocates
\* 33*nx*ny - 5*(nx-1)*ny - 5*nx*(ny-1) + (nx-1)*(ny-1) points; the ids the
\* tiles hold are exactly 0 .. N-1, no tile keeps INVALID_POINT, and no point
\* is allocated twice (each id has coordinates of its own).
C13_DefaultPointCount ==
    (PassDone /\ DefaultTile /\ nz = 0) =>
        LET N == PointCount(nx, ny)
        IN  /\ Len(coords.x) = N
            /\ Len(coords.y) = N
            /\ UNION {Range(tiles[k]) : k \in 1 .. (nx * ny)} = 0 .. (N - 1)
            /\ \A k \in 1 .. (nx * ny) : INVALID_POINT \notin Range(tiles[k])
            /\ Cardinality({<<coords.x[p], coords.y[p]>> : p \in 1 .. N}) = N

\* C13 witness: 2 by 1 default tiles, 61 points, the seam shared.
C13_Witness ==
    /\ PassDone /\ DefaultTile
    /\ nx = 2 /\ ny = 1 /\ nz = 0
    /\ Len(coords.x) = 61
    /\ At(At(tiles, 1), 0) = At(At(tiles, 0), 4)
    /\ At(At(tiles, 1), 32) = 60

\* C14 as stated: tiled(1, 1, 0) with the default pattern and reorder = 0
\* gives 24 quads and a boundary topology of shape line with 20 segments.
C14_TwentySegments ==
    (/\ Generated /\ DefaultTile
     /\ nx = 1 /\ ny = 1 /\ nz = 0
     /\ options.reorder = {0}
     /\ options.domain = {})
    =>
        /\ res.shape = "quad"
        /\ Len(sizes) = 24
        /\ res.boundary = {"line"}
        /\ Len(bsizes) = 20

\* C14, amended: ... gives 24 quads and a boundary topology of shape line
\* with 16 segments, 4 on each of Left, Right, Bottom and Top.
C14_SixteenSegments ==
    (/\ Generated /\ DefaultTile
     /\ nx = 1 /\ ny = 1 /\ nz = 0
     /\ options.reorder = {0}
     /\ options.domain = {})
    =>
        /\ res.shape = "quad"
        /\ Len(sizes) = 24
        /\ Len(conn) = 96
        /\ res.boundary = {"line"}
        /\ Len(bsizes) = 16
        /\ Len(bconn) = 32
        /\ \A s \in {BoundaryLeft, BoundaryRight, BoundaryBottom,
                     BoundaryTop} : CountOf(btype, s) = 4

\* C14 witness: that mesh, its boundary starting down the left edge.
C14_Witness ==
    /\ Generated /\ DefaultTile
    /\ nx = 1 /\ ny = 1 /\ nz = 0
    /\ options.reorder = {0}
    /\ options.domain = {}
    /\ Len(coords.x) = 33
    /\ SubSeq(bconn, 1, 4) = <<28, 24, 24, 14>>
    /\ SubSeq(btype, 1, 5) = <<0, 0, 0, 0, 2>>

\* C15: for the default pattern, nz >= 1 and all six sides enabled, generate
\* gives (nz+1) * (2D point count) points, 24*nx*ny*nz hexes, and boundary
\* quads: 4*ny*nz on Left and on Right, 4*nx*nz on Bottom and on Top,
\* 24*nx*ny on Back and on Front. Every hex joins a quad of the pattern in
\* one plane with the same quad one plane up: as it is generated its ids are
\* those of the quad plus k and k+1 times the points of a plane, and in the
\* finished mesh its upper four points lie straight above its lower four.
C15_Hexes ==
    /\ (DefaultTile /\ nz >= 1
        /\ (t_pc = "reorder" \/ (~reorder /\ t_pc \in {"boundary", "done"})))
       =>
        \A k \in 0 .. (nz - 1) : \A t \in 0 .. (nx * ny - 1) :
        \A q \in 0 .. 23 : \A c \in 0 .. 3 :
            LET h == (k * nx * ny + t) * 24 + q
                id == At(At(tiles, t), At(tiler.m_quads, 4 * q + c))
            IN  /\ At(conn, 8 * h + c) = k * ptsPerPlane + id
                /\ At(conn, 8 * h + 4 + c) = (k + 1) * ptsPerPlane + id
    /\ (Generated /\ DefaultTile /\ nz >= 1 /\ AllSides)
       =>
        LET N == (nz + 1) * PointCount(nx, ny)
        IN  /\ Len(coords.x) = N /\ Len(coords.y) = N /\ Len(coords.z) = N
            /\ res.shape = "hex"
            /\ Len(sizes) = 24 * nx * ny * nz
            /\ \A h \in DOMAIN sizes : sizes[h] = 8
            /\ Len(conn) = 8 * Len(sizes)
            /\ res.boundary = {"quad"}
            /\ CountOf(btype, BoundaryLeft) = 4 * ny * nz
            /\ CountOf(btype, BoundaryRight) = 4 * ny * nz
            /\ CountOf(btype, BoundaryBottom) = 4 * nx * nz
            /\ CountOf(btype, BoundaryTop) = 4 * nx * nz
            /\ CountOf(btype, BoundaryBack) = 24 * nx * ny
            /\ CountOf(btype, BoundaryFront) = 24 * nx * ny
            /\ Len(btype) = 8 * (nx + ny) * nz + 48 * nx * ny
            /\ \A h \in 0 .. (Len(sizes) - 1) : \A c \in 0 .. 3 :
                  LET lo == At(conn, 8 * h + c)
                      up == At(conn, 8 * h + 4 + c)
                  IN  /\ At(coords.x, up) = At(coords.x, lo)
                      /\ At(coords.y, up) = At(coords.y, lo)
                      /\ At(coords.z, up)
                           = At(coords.z, lo) + Max(tiler.m_width, tiler.m_height)

\* C15 witness: tiled(1, 1, 1), reordered: 66 points, 24 hexes, 64 faces.
C15_Witness ==
    /\ Generated /\ DefaultTile /\ AllSides
    /\ nx = 1 /\ ny = 1 /\ nz = 1
    /\ reorder
    /\ Len(coords.z) = 66
    /\ Len(sizes) = 24
    /\ Len(bsizes) = 64

\* C16: for the default pattern, nz = 0 and all sides enabled, every boundary
\* segment (a, b) lies on the side of the brick its label names and runs with
\* the outside on its right: Left from top to bottom, Bottom from left to
\* right, Right from bottom to top, Top from right to left.
C16_Orientation ==
    (Generated /\ DefaultTile /\ nz = 0 /\ AllSides) =>
        LET origin == Origin(options, tiler, nx, ny, nz)
            x0 == At(origin, 0)
            x1 == x0 + nx * tiler.m_width
            y0 == At(origin, 1)
            y1 == y0 + ny * tiler.m_height
        IN  /\ Len(bconn) = 2 * Len(btype)
            /\ Len(btype) = 8 * (nx + ny)
            /\ \A f \in 0 .. (Len(btype) - 1) :
                  LET a == At(bconn, 2 * f)
                      b == At(bconn, 2 * f + 1)
                      xa == At(coords.x, a)
                      ya == At(coords.y, a)
                      xb == At(coords.x, b)
                      yb == At(coords.y, b)
                      side == At(btype, f)
                  IN  /\ side = BoundaryLeft =>
                            xa = x0 /\ xb = x0 /\ ya > yb
                      /\ side = BoundaryBottom =>
                            ya = y0 /\ yb = y0 /\ xa < xb
                      /\ side = BoundaryRight =>
                            xa = x1 /\ xb = x1 /\ ya < yb
                      /\ side = BoundaryTop =>
                            ya = y1 /\ yb = y1 /\ xa > xb
                      /\ side \in {BoundaryLeft, BoundaryBottom,
                                   BoundaryRight, BoundaryTop}

\* C16 witness: 2 by 2 default tiles, reordered, the boundary renumbered.
C16_Witness ==
    /\ Generated /\ DefaultTile /\ AllSides
    /\ nx = 2 /\ ny = 2 /\ nz = 0
    /\ reorder
    /\ Len(btype) = 32
    /\ At(old2NewPoint, 0) = 112
    /\ At(bconn, 0) # At(At(tiles, 2), 28)

\* The flags C17 names for the options.
FlagsOf(opts) ==
    IF /\ opts.domain # {} /\ opts.domains # {}
       /\ Len(Value(opts.domain)) = 3 /\ Len(Value(opts.domains)) = 3
    THEN LET d == Value(opts.domain)
             n == Value(opts.domains)
         IN  IF n[1] * n[2] * n[3] > 1
             THEN <<d[1] = 0, d[1] = n[1] - 1, d[2] = 0, d[2] = n[2] - 1,
                    d[3] = 0, d[3] = n[3] - 1>>
             ELSE <<TRUE, TRUE, TRUE, TRUE, TRUE, TRUE>>
    ELSE <<TRUE, TRUE, TRUE, TRUE, TRUE, TRUE>>

\* C17: with `domain` and `domains` both present, of 3 components each, and
\* the product of `domains` above 1, Left, Right, Bottom, Top, Back, Front
\* are enabled exactly when domain[0] = 0, domain[0] = domains[0]-1,
\* domain[1] = 0, domain[1] = domains[1]-1, domain[2] = 0,
\* domain[2] = domains[2]-1; in every other case all six are enabled.
\* Boundary faces are emitted for the enabled sides only (and for each
\* enabled side of the mesh's dimension, unless its edge has fewer than two
\* points).
C17_BoundaryFlags ==
    Generated =>
        /\ flags = FlagsOf(options)
        /\ \A f \in DOMAIN btype : At(flags, btype[f])
        /\ \A s \in 0 .. (IF nz < 1 THEN 3 ELSE 5) :
              (At(flags, s) /\ (s <= BoundaryTop => Len(EdgeOf(tiler, s)) >= 2))
                  => \E f \in DOMAIN btype : btype[f] = s

\* C17 witness: the middle brick of three in a row, in 3D: no Left and no
\* Right faces, the other four sides emitted.
C17_Witness ==
    /\ Generated
    /\ nz = 1
    /\ options.domain = {<<1, 0, 0>>}
    /\ options.domains = {<<3, 1, 1>>}
    /\ flags = <<FALSE, FALSE, TRUE, TRUE, TRUE, TRUE>>
    /\ CountOf(btype, BoundaryLeft) = 0
    /\ CountOf(btype, BoundaryRight) = 0
    /\ CountOf(btype, BoundaryBottom) > 0
    /\ CountOf(btype, BoundaryFront) > 0

\* C18: generate called with a `tile` option that violates a validation
\* invariant fails: it emits no mesh (no element, no shape) and does not
\* run to its end.
C18_InvalidPatternFails ==
    (options.tile # {} /\ ~Valid(Initialize(Value(options.tile)))) =>
        /\ ~Generated
        /\ conn = <<>>
        /\ res.shape = ""

\* C19: reordering is enabled exactly when `reorder` is absent or holds a
\* nonzero integer, positive or negative: the flag is set so, and the
\* elements and the boundary connectivity are renumbered through
\* old2NewPoint in exactly these cases.
C19_ReorderNonzero ==
    LET wanted == options.reorder = {} \/ Value(options.reorder) # 0
    IN  /\ t_pc \notin {"idle", "options"} => (reorder <=> wanted)
        /\ t_pc \in {"boundary", "done"} =>
              ((old2NewPoint # <<>>) <=> wanted)

\* ------------------------------------- what the point merger's claims refer to
MergeDone == m_pc = "done"

\* A Cartesian coordinate set: it holds x, and y and z or neither or one.
Cartesian(values) ==
    "x" \in DOMAIN values /\ DOMAIN values \subseteq {"x", "y", "z"}

AllCartesian == \A d \in DOMAIN coordsets : Cartesian(coordsets[d])

\* The input points: (domain, id).
InputPoints ==
    {p \in (0 .. (Len(coordsets) - 1)) \X (0 .. (MaxPoints - 1)) :
        p[2] < NPoints(At(coordsets, p[1]))}

\* A coordinate of an input point, 0 on an axis its set does not hold.
Coordinate(p, name) ==
    LET values == At(coordsets, p[1])
    IN  IF name \in DOMAIN values THEN At(values[name], p[2]) ELSE 0

\* n/d (d > 0) rounded to the nearest whole number, a half away from zero.
Nearest(n, d) ==
    LET dist(q) == IF n >= q * d THEN n - q * d ELSE q * d - n
        abs(a) == IF a >= 0 THEN a ELSE 0 - a
        far == abs(n) \div d + 1
    IN  CHOOSE q \in (0 - far) .. far :
            \/ 2 * dist(q) < d
            \/ 2 * dist(q) = d /\ abs(q) * d > abs(n)

\* (round(x*S), round(y*S), round(z*S)) of an input point.
KeyOf(p) ==
    <<Nearest(Coordinate(p, "x") * scale, Unit),
      Nearest(Coordinate(p, "y") * scale, Unit),
      Nearest(Coordinate(p, "z") * scale, Unit)>>

\* Where the pair of an input point stands: (key, position) of each
\* occurrence in the records.
Places(p) ==
    {kp \in (DOMAIN point_records) \X (1 .. MaxTotalPoints) :
        LET r == point_records[kp[1]]
        IN  /\ kp[2] \in DOMAIN r.orig_domains
            /\ kp[2] \in DOMAIN r.orig_ids
            /\ r.orig_domains[kp[2]] = p[1]
            /\ r.orig_ids[kp[2]] = p[2]}

\* C20: after execute on a fresh merger over a list of Cartesian coordinate
\* sets, every input point occurs in exactly one record, as the pair
\* (orig_domains[k], orig_ids[k]) at one position k, and that record's key is
\* (round(x*S), round(y*S), round(z*S)) of the point; no record holds a pair
\* that is not an input point, and two points share a record iff their keys
\* are equal.
C20_RecordsOfInputPoints ==
    (MergeDone /\ call = "first" /\ AllCartesian) =>
        /\ \A p \in InputPoints :
              /\ Cardinality(Places(p)) = 1
              /\ \A kp \in Places(p) : kp[1] = KeyOf(p)
        /\ \A key \in DOMAIN point_records :
              LET r == point_records[key]
              IN  /\ Len(r.orig_domains) = Len(r.orig_ids)
                  /\ \A k \in DOMAIN r.orig_domains :
                        <<r.orig_domains[k], r.orig_ids[k]>> \in InputPoints
        /\ \A p, q \in InputPoints :
              (\E kp \in Places(p) : \E kq \in Places(q) : kp[1] = kq[1])
              <=> KeyOf(p) = KeyOf(q)

\* The keys the points of an output coordinate set quantize to.
KeysOfOutput(out) ==
    {<<Nearest(out.x[p] * scale, Unit), Nearest(out.y[p] * scale, Unit),
       Nearest(out.z[p] * scale, Unit)>> : p \in DOMAIN out.x}

\* C21: point-merge idempotence. The coordinates a call of execute emits are
\* as many as its records and quantize back to the keys of the records; a
\* fresh merger run with the same tolerance on the output of a first execute
\* ends with the same number of points as that output (and the same keys).
C21_Idempotence ==
    /\ MergeDone =>
          /\ Len(output.x) = Cardinality(DOMAIN point_records)
          /\ Len(output.y) = Len(output.x)
          /\ Len(output.z) = Len(output.x)
          /\ KeysOfOutput(output) = DOMAIN point_records
    /\ (MergeDone /\ call = "remerge") =>
          /\ Len(output.x) = Len(first_call.output.x)
          /\ DOMAIN point_records = DOMAIN first_call.point_records

\* C21 witness: the first call kept two points apart, one of them below
\* zero; the fresh merger run on its output has ended with two points again.
C21_Witness ==
    /\ MergeDone
    /\ call = "remerge"
    /\ Len(first_call.coordsets) = 2
    /\ first_call.output.x = <<0 - 2 * Half, 2 * Half>>
    /\ Len(output.x) = 2
    /\ <<-1, 0, 0>> \in DOMAIN point_records

\* C22: the scale execute quantizes with is the table entry for the number
\* of decimal places of the tolerance argument (0 to 6), so that tolerances
\* of different numbers of places quantize with different scales.
C22_ScaleFromTolerance ==
    m_pc \in {"coordsets", "done"} =>
        scale = At(lookup, IF tolerance < Len(lookup) THEN tolerance ELSE 6)

\* C23: a coordinate set in which an axis is missing is processed with that
\* axis 0 and every axis it holds kept: once execute has gone through a set
\* that holds x, each point i of it stands in the record whose key is
\* (round(x_i*S), round(y_i*S), round(z_i*S)), y_i or z_i being 0 where the
\* set has no y or no z; so for a set of x and z the key is
\* (round(x_i*S), 0, round(z_i*S)).
C23_MissingAxisZero ==
    (call = "first" /\ m_pc \in {"coordsets", "done"}) =>
        \A p \in InputPoints :
            (p[1] < set_i /\ Cartesian(At(coordsets, p[1]))) =>
                /\ KeyOf(p) \in DOMAIN point_records
                /\ \E kp \in Places(p) : kp[1] = KeyOf(p)

\* C29: the result of execute depends on the arguments of that call only:
\* when execute has been called a second time on the same point_merge, the
\* records and the output hold the merged points of the second input and
\* nothing else: one output point per key of the second input, and in the
\* records the pairs of the second input's points, each once.
C29_OnlyThisCall ==
    (MergeDone /\ call = "again") =>
        LET keys == {KeyOf(p) : p \in InputPoints}
        IN  /\ DOMAIN point_records = keys
            /\ Len(output.x) = Cardinality(keys)
            /\ KeysOfOutput(output) = keys
            /\ \A p \in InputPoints : Cardinality(Places(p)) = 1
            /\ \A key \in DOMAIN point_records :
                  Len(point_records[key].orig_ids)
                  = Cardinality({p \in InputPoints : KeyOf(p) = key})

\* ----------------------------------------- sends that block (SpecSync)
\* Rank r stands in a send whose receive the destination has not posted.
BlockedInSend(r) ==
    /\ pc[r] = "comm"
    /\ ToSend(r) # {}
    /\ LET gidx == At(offsets[r], r) + Least(ToSend(r))
       IN  [src |-> r, tag |-> Tag(gidx)]
               \notin posted[At(dest_rank[r], gidx)]

\* Rank r stands in a receive whose message has not been sent.
BlockedInRecv(r) ==
    /\ pc[r] = "comm"
    /\ posted[r] # {}
    /\ \A p \in posted[r] :
          ~\E m \in msgs : m.dest = r /\ m.src = p.src /\ m.tag = p.tag

\* Every dest_rank value lies in [0, size).
DestRanksInRange ==
    \A r \in Ranks : \A g \in DOMAIN dest_rank[r] :
        dest_rank[r][g] \in 0 .. (size - 1)

\* C24: communicate_chunks terminates on every rank also when each send
\* blocks until the destination has posted the matching receive. Stated on
\* single states: with dest_rank in range, the ranks are never all of them
\* either returned or blocked for good with one of them still inside
\* communicate_chunks (each rank blocked in a send or a receive that only a
\* rank itself blocked could release).
C24_TerminatesWithoutBuffering ==
    DestRanksInRange =>
        ~(/\ \E r \in Ranks : pc[r] = "comm"
          /\ \A r \in Ranks :
                \/ pc[r] \in {"done", "error"}
                \/ BlockedInSend(r)
                \/ BlockedInRecv(r))

\* Where global chunk g stands among the assembled chunks of the fleet:
\* (rank, position) of each chunk that is g's mesh.
AssembledAt(g) ==
    {rk \in Ranks \X (1 .. NChunks) :
        /\ rk[2] \in DOMAIN chunks_to_assemble[rk[1]]
        /\ chunks_to_assemble[rk[1]][rk[2]].mesh.id = InputOf(g).mesh.id}

\* C25: chunk conservation. With every dest_rank value in [0, size), once
\* communicate_chunks has returned on all ranks every global chunk g stands
\* exactly once among the assembled chunks of the fleet, on rank dest_rank[g];
\* the assembled chunks number as many as the chunks, and no message is left
\* unreceived.
C25_ChunkConservation ==
    (AllDone /\ DestRanksInRange) =>
        /\ \A g \in Globals :
              /\ Cardinality(AssembledAt(g)) = 1
              /\ \A rk \in AssembledAt(g) : rk[1] = At(dest_rank[0], g)
        /\ SumSeq([q \in 1 .. size |-> Len(chunks_to_assemble[q - 1])])
              = NChunks
        /\ msgs = {}

\* C25 witness: two ranks have exchanged chunks in both directions and a
\* third chunk has stayed where it was; all have returned.
C25_Witness ==
    /\ AllDone
    /\ DestRanksInRange
    /\ size = 2
    /\ NChunks = 3
    /\ \E k \in DOMAIN chunks_to_assemble[0] :
          ~chunks_to_assemble[0][k].external
    /\ \E k \in DOMAIN chunks_to_assemble[1] :
          ~chunks_to_assemble[1][k].external
    /\ \E r \in Ranks : \E k \in DOMAIN chunks_to_assemble[r] :
          chunks_to_assemble[r][k].external

\* C26: a final domain lives on a single rank. Whenever map_chunks has
\* returned without error on a rank, with all chunks free or all chunks
\* pinned, any two global chunks it gave the same dest_domain have the same
\* dest_rank.
C26_DomainOnOneRank ==
    \A r \in Ranks : Returned(r) =>
        \A g, h \in Globals :
            At(dest_domain[r], g) = At(dest_domain[r], h)
                => At(dest_rank[r], g) = At(dest_rank[r], h)

\* get_total_selections: the sum over the ranks of selections.size().
TotalSelections == SumSeq([q \in 1 .. size |-> Len(selections[q - 1])])

\* C27: whenever the fleet holds at least one selection, once
\* get_largest_selection has returned on every rank exactly one rank has
\* sel_index >= 0; selections of length 0 and ranks without selections
\* included.
C27_OneRankHasIndex ==
    (TotalSelections > 0 /\ \A r \in Ranks : sel_pc[r] = "done") =>
        Cardinality({r \in Ranks : sel_index[r] >= 0}) = 1

\* C28: communicate_chunks leaves its input chunks as they came: every input
\* mesh keeps the state/domain_id, state/cycle and state/time it was given
\* and is not owned. The wrapper assembled for a chunk that stays on its
\* rank refers to the non-state children of that input, carries the input's
\* state/cycle and state/time when the input has them and no such entry
\* when it has not, and has a state/domain_id of its own.
C28_InputUntouched ==
    /\ \A r \in Ranks : \A i \in DOMAIN chunks[r] :
          /\ ~chunks[r][i].owned
          /\ chunks[r][i].mesh.id = <<r, i>>
          /\ chunks[r][i].mesh.domain_id = r
          /\ chunks[r][i].mesh.cycle = InputCycle(r, i)
          /\ chunks[r][i].mesh.time = InputTime(r, i)
    /\ \A r \in Ranks : \A n \in DOMAIN chunks_to_assemble[r] :
          LET c == chunks_to_assemble[r][n]
              g == c.mesh.domain_id
          IN  c.external =>
                /\ g \in Globals
                /\ SourceOf(g) = r
                /\ c.owned
                /\ c.mesh.id = InputOf(g).mesh.id
                /\ c.mesh.num_elements = InputOf(g).mesh.num_elements
                /\ c.mesh.cycle = InputOf(g).mesh.cycle
                /\ c.mesh.time = InputOf(g).mesh.time

\* C28 witness: rank 1 has returned with the wrappers of its two chunks, the
\* first with state/cycle and state/time, the second with neither; the
\* second wrapper is domain 2 while its input is still domain 1.
C28_Witness ==
    /\ size = 2
    /\ pc[1] = "done"
    /\ Len(chunks[0]) = 1
    /\ Len(chunks_to_assemble[1]) = 2
    /\ chunks_to_assemble[1][1].external
    /\ chunks_to_assemble[1][2].external
    /\ chunks_to_assemble[1][1].mesh.cycle # {}
    /\ chunks_to_assemble[1][1].mesh.time # {}
    /\ chunks_to_assemble[1][2].mesh.cycle = {}
    /\ chunks_to_assemble[1][2].mesh.time = {}
    /\ chunks_to_assemble[1][2].mesh.domain_id = 2
    /\ chunks[1][2].mesh.domain_id = 1

\* The faces of topology boundary that lie on a side.
FacesOn(side) == Cardinality({n \in DOMAIN btype : btype[n] = side})

\* The tiles along a side, and the layers of the mesh.
TilesAlong(side) ==
    IF side \in {BoundaryLeft, BoundaryRight} THEN ny ELSE nx

Layers == IF nz < 1 THEN 1 ELSE nz

\* C30: whatever the pattern, once the boundary loops of generate are over
\* they have read no edge id outside [0, len), no loop bound len - 1 has
\* wrapped around, and every enabled side holds len - 1 faces per tile (per
\* layer in 3D) when its edge array has len >= 1 points and none when it has
\* no point.
C30_FacesPerEdge ==
    t_pc \in {"done", "fault"} =>
        /\ ~outside
        /\ t_pc = "done"
        /\ \A side \in {BoundaryLeft, BoundaryRight, BoundaryBottom,
                        BoundaryTop} :
              At(BoundaryFlags(options), side) =>
                  LET len == Len(EdgeOf(tiler, side))
                  IN  /\ LoopBound(EdgeOf(tiler, side)) = len - 1
                      /\ FacesOn(side) = TilesAlong(side) * Layers
                             * (IF len >= 1 THEN len - 1 ELSE 0)

====
